---- MODULE Spec2Model ----
(***************************************************************************)
(* Health Auto Export ingestion webhook                                    *)
(* (backend/app/apis/ingest/__init__.py).                                   *)
(*                                                                         *)
(* A request is modelled by the JSON document it carries: objects are      *)
(* records whose DOMAIN is the set of keys present, arrays are sequences,  *)
(* scalars are tagged records (Num, Str, NumStr, Text, Null) so that a     *)
(* wrongly typed field can be told from a well typed one; where a field    *)
(* may hold an object, an array or a scalar (the typed fields of a         *)
(* workout) objects and arrays are tagged too (Obj, Arr), and the values   *)
(* inside such an object are tagged scalars.  true and false are not       *)
(* among the values of the model.  A timestamp string is modelled by its   *)
(* lexical parts (layout, civil fields, zone suffix); parsing computes the *)
(* instant as seconds since 1970-01-01T00:00:00Z.  Finite floats are       *)
(* integers, and inf, -inf and nan are three integers beyond them; hour    *)
(* quantities of sleep entries are counted in eighths of an hour, which    *)
(* are exact in binary floating point.                                     *)
(***************************************************************************)
EXTENDS Integers, Sequences, FiniteSets, TLC

VARIABLES
    health_metrics,   \* table health_metrics: its rows in insertion order
    sleep_metrics,    \* table sleep_metrics: its rows in insertion order
    clock,            \* the instant the next datetime.now(timezone.utc) returns
    last,             \* the webhook call that returned last: input, response, trace
    calls,            \* the webhook calls, each at one of its awaits
    reader            \* the call of a reading endpoint, at one of its awaits

vars == <<health_metrics, sleep_metrics, clock, last, calls, reader>>

(***************************************************************************)
(* JSON scalars                                                            *)
(***************************************************************************)
Num(n) == [t |-> "num", v |-> n]
Str(s) == [t |-> "str", s |-> s]          \* a string that is no numeral and no timestamp
NumStr(n) == [t |-> "numstr", v |-> n]    \* the string that is the numeral of n
\* a string given character by character: letters, signs and blanks
Text(chars) == [t |-> "text", c |-> chars]
Null == [t |-> "null"]
Obj(d) == [t |-> "dict", d |-> d]
Arr(a) == [t |-> "list", a |-> a]
IsNum(j) == j.t = "num"
IsStr(j) == j.t \in {"str", "numstr", "ts", "text"}
IsDict(j) == j.t = "dict"
IsList(j) == j.t = "list"
\* the text of a string
StrOf(j) == IF j.t = "str" THEN j.s ELSE IF j.t = "numstr" THEN ToString(j.v) ELSE ToString(j)
Has(obj, key) == key \in DOMAIN obj
EmptyDict == [k \in {} |-> 0]

(***************************************************************************)
(* Timestamp strings.  form "swift" is  YYYY-MM-DD HH:MM:SS <zone>  (space *)
(* separated, space before the zone); form "iso" is                        *)
(* YYYY-MM-DDTHH:MM:SS<zone>; form "date" is YYYY-MM-DD, and as digits     *)
(* alone YYYYMMDD; form "junk" is the text not-a-date.  zone "num" is      *)
(* +HHMM / -HHMM, "colon" is +HH:MM / -HH:MM, "Z" is the literal Z, and    *)
(* "none" is no zone at all (in form "swift" the space before the zone is  *)
(* then not written either).  These are the timestamp texts of the model;  *)
(* fractions of a second, times without seconds, offsets of hours alone    *)
(* and week dates are not among them.                                      *)
(***************************************************************************)
SwiftTs(date, time, off) ==
    [t |-> "ts", form |-> "swift", y |-> date[1], mo |-> date[2], d |-> date[3],
     h |-> time[1], mi |-> time[2], sec |-> time[3],
     zone |-> "num", sign |-> off[1], zh |-> off[2], zm |-> off[3]]
IsoZTs(date, time) ==
    [t |-> "ts", form |-> "iso", y |-> date[1], mo |-> date[2], d |-> date[3],
     h |-> time[1], mi |-> time[2], sec |-> time[3],
     zone |-> "Z", sign |-> 1, zh |-> 0, zm |-> 0]
IsoOffTs(date, time, off) ==
    [t |-> "ts", form |-> "iso", y |-> date[1], mo |-> date[2], d |-> date[3],
     h |-> time[1], mi |-> time[2], sec |-> time[3],
     zone |-> "colon", sign |-> off[1], zh |-> off[2], zm |-> off[3]]
\* YYYY-MM-DDTHH:MM:SS and YYYY-MM-DD HH:MM:SS, without a zone
NaiveTs(date, time) ==
    [t |-> "ts", form |-> "iso", y |-> date[1], mo |-> date[2], d |-> date[3],
     h |-> time[1], mi |-> time[2], sec |-> time[3],
     zone |-> "none", sign |-> 1, zh |-> 0, zm |-> 0]
NaiveSpaceTs(date, time) == [NaiveTs(date, time) EXCEPT !.form = "swift"]
\* YYYY-MM-DD
DateTs(date) == [NaiveTs(date, <<0, 0, 0>>) EXCEPT !.form = "date"]
\* the text not-a-date, which neither format parses
JunkTs == [t |-> "ts", form |-> "junk"]

IsLeap(y) == (y % 4 = 0 /\ y % 100 # 0) \/ y % 400 = 0
DaysInMonth(y, m) ==
    IF m = 2 THEN (IF IsLeap(y) THEN 29 ELSE 28)
    ELSE IF m \in {4, 6, 9, 11} THEN 30 ELSE 31

\* days from 1970-01-01 to the civil date y-m-d (proleptic Gregorian)
DaysFromCivil(y, m, d) ==
    LET yy  == IF m <= 2 THEN y - 1 ELSE y
        era == yy \div 400
        yoe == yy - era * 400
        mp  == IF m > 2 THEN m - 3 ELSE m + 9
        doy == (153 * mp + 2) \div 5 + d - 1
        doe == yoe * 365 + yoe \div 4 - yoe \div 100 + doy
    IN  era * 146097 + doe - 719468

\* datetime(...) raises ValueError on fields out of range
ValidCivil(v) ==
    /\ v.y \in 1..9999
    /\ v.mo \in 1..12
    /\ v.d \in 1..DaysInMonth(v.y, v.mo)
    /\ v.h \in 0..23 /\ v.mi \in 0..59 /\ v.sec \in 0..59
\* %z takes minutes up to 59; timezone(timedelta) must be strictly within 24
\* hours
ValidOffset(v) == v.zm \in 0..59 /\ v.zh * 60 + v.zm < 24 * 60
\* fromisoformat takes any two digits as the minutes of the offset (+00:60 is
\* an hour); the offset must be strictly within 24 hours
ValidIsoOffset(v) == v.zh * 60 + v.zm < 24 * 60

\* a parse that drops the UTC offset and keeps the local time
OffsetSeconds_naive(v) == 0

\* the UTC offset of %z in seconds
OffsetSeconds(v) == v.sign * (v.zh * 3600 + v.zm * 60)
\* the instant a datetime denotes: local civil time minus its offset.  A
\* datetime without a zone is read in the zone of the server when it is
\* stored, and the server runs in UTC
InstantOf(v) ==
    DaysFromCivil(v.y, v.mo, v.d) * 86400 + v.h * 3600 + v.mi * 60 + v.sec
        - OffsetSeconds(v)

\* a parse raises, or returns a datetime with a zone (aware) or without one
Fail == [ok |-> FALSE, instant |-> 0, aware |-> FALSE]
Parsed(i, aware) == [ok |-> TRUE, instant |-> i, aware |-> aware]

\* datetime.strptime(v, "%Y-%m-%d %H:%M:%S %z"): %z must be there
strptime(v) ==
    IF v.form = "swift" /\ v.zone # "none" /\ ValidCivil(v) /\ ValidOffset(v)
    THEN Parsed(InstantOf(v), TRUE) ELSE Fail

\* v.replace('Z', '+00:00')
ReplaceZ(v) ==
    IF v.form # "junk" /\ v.zone = "Z"
    THEN [v EXCEPT !.zone = "colon", !.sign = 1, !.zh = 0, !.zm = 0]
    ELSE v

\* datetime.fromisoformat(v): any one character separates date and time, a
\* space may stand before the offset, and the offset is written with or
\* without a colon; the time and the zone may be left out, and a text without
\* a zone gives a datetime without one
fromisoformat(v) ==
    IF v.form \in {"swift", "iso", "date"} /\ ValidCivil(v) /\ ValidIsoOffset(v)
    THEN Parsed(InstantOf(v), v.zone # "none") ELSE Fail

\* the date a numeral of eight digits is in the basic format YYYYMMDD; no
\* other numeral below ten digits is a date
BasicDate(n) == DateTs(<<n \div 10000, (n \div 100) % 100, n % 100>>)
IsBasicDate(n) == n \in 10000000..99999999

\* float("inf") and float("nan"): no finite quantity of the model reaches them,
\* and nan sorts after inf as it does in the database
inf == 1000000000
nan == inf + 1
IsFinite(x) == x \notin {inf, -inf, nan}
\* x > 0 of floats: every comparison with nan is false
IsPositive(x) == x # nan /\ x > 0
\* x + y of floats, of which at most the infinities and nan are not integers
FloatAdd(x, y) ==
    IF x = nan \/ y = nan THEN nan
    ELSE IF x \in {inf, -inf} THEN (IF y = -x THEN nan ELSE x)
    ELSE IF y \in {inf, -inf} THEN y
    ELSE x + y

\* the pre-validator of every datetime field: the Swift format first, ISO as the
\* fallback; a failure of both is a validation error of the field
\* a JSON number is passed through and read as seconds since the epoch
parse_swift_datetime(v) ==
    IF v.t = "ts"
    THEN IF strptime(v).ok THEN strptime(v) ELSE fromisoformat(ReplaceZ(v))
    ELSE IF v.t = "numstr"
    THEN IF IsBasicDate(v.v) THEN fromisoformat(BasicDate(v.v)) ELSE Fail
    ELSE IF v.t = "num" /\ IsFinite(v.v) THEN Parsed(v.v, TRUE) ELSE Fail

(***************************************************************************)
(* Structural validators (the pydantic models).  A validator returns the   *)
(* validated value; Valid... says whether validation succeeds.  Optional   *)
(* fields of a validated workout are sequences: <<>> is None, <<x>> is x.  *)
(***************************************************************************)
ValidDate(obj, key) == Has(obj, key) /\ parse_swift_datetime(obj[key]).ok
\* the strings a float field takes besides numerals: the words for an
\* infinity and for nan, signed or not
InfWords == {"inf", "+inf", "Infinity", "+Infinity", "infinity", "+infinity"}
NegInfWords == {"-inf", "-Infinity", "-infinity"}
NanWords == {"nan", "+nan", "-nan", "NaN"}
\* the words are taken in any letter case and with blanks around them
Lower(ch) ==
    CASE ch = "I" -> "i" [] ch = "N" -> "n" [] ch = "F" -> "f" [] ch = "T" -> "t"
      [] ch = "Y" -> "y" [] ch = "A" -> "a" [] OTHER -> ch
IsBlank(ch) == ch \in {" ", "\t", "\n", "\r"}
RECURSIVE Strip(_)
Strip(chars) ==
    IF chars = <<>> THEN chars
    ELSE IF IsBlank(Head(chars)) THEN Strip(Tail(chars))
    ELSE IF IsBlank(chars[Len(chars)]) THEN Strip(SubSeq(chars, 1, Len(chars) - 1))
    ELSE chars
\* the word of a text: its letters in lower case, its sign apart
Folded(chars) == [i \in DOMAIN Strip(chars) |-> Lower(Strip(chars)[i])]
Signed(word) == word # <<>> /\ Head(word) \in {"+", "-"}
Unsigned(word) == IF Signed(word) THEN Tail(word) ELSE word
IsInfText(chars) ==
    Unsigned(Folded(chars)) \in {<<"i", "n", "f">>, <<"i", "n", "f", "i", "n", "i", "t", "y">>}
IsNanText(chars) == Unsigned(Folded(chars)) = <<"n", "a", "n">>
\* a float field takes a number, a string that is a numeral, or one of the
\* words for an infinity or nan
IsFloat(j) ==
    \/ j.t \in {"num", "numstr"}
    \/ j.t = "str" /\ j.s \in InfWords \cup NegInfWords \cup NanWords
    \/ j.t = "text" /\ (IsInfText(j.c) \/ IsNanText(j.c))
\* the float a float field is validated to
FloatOf(j) ==
    IF j.t \in {"num", "numstr"} THEN j.v
    ELSE IF j.t = "text"
    THEN (IF IsNanText(j.c) THEN nan
          ELSE IF Head(Folded(j.c)) = "-" THEN -inf ELSE inf)
    ELSE IF j.s \in InfWords THEN inf
    ELSE IF j.s \in NegInfWords THEN -inf
    ELSE nan
ValidFloat(obj, key) == Has(obj, key) /\ IsFloat(obj[key])
ValidStr(obj, key) == Has(obj, key) /\ IsStr(obj[key])
DateOf(obj, key) == parse_swift_datetime(obj[key]).instant
\* whether the datetime of a field has a zone (its tzinfo is not None)
AwareOf(obj, key) == parse_swift_datetime(obj[key]).aware

ValidCommonPoint(p) == ValidDate(p, "date") /\ ValidFloat(p, "qty")
CommonPoint(p) == [date |-> DateOf(p, "date"), qty |-> FloatOf(p.qty)]

SleepFloatFields == {"asleep", "awake", "core", "deep", "rem", "totalSleep"}
ValidSleepEntry(p) ==
    /\ \A k \in {"date", "sleepStart", "sleepEnd"} : ValidDate(p, k)
    /\ \A k \in SleepFloatFields : ValidFloat(p, k)
    /\ ValidStr(p, "source")
SleepEntry(p) ==
    [date |-> DateOf(p, "date"), asleep |-> FloatOf(p.asleep), awake |-> FloatOf(p.awake),
     core |-> FloatOf(p.core), deep |-> FloatOf(p.deep), rem |-> FloatOf(p.rem),
     sleepStart |-> DateOf(p, "sleepStart"), sleepEnd |-> DateOf(p, "sleepEnd"),
     source |-> StrOf(p.source), totalSleep |-> FloatOf(p.totalSleep),
     tzinfo |-> [sleepStart |-> AwareOf(p, "sleepStart"),
                 sleepEnd |-> AwareOf(p, "sleepEnd")]]

\* an Optional field is given when it is present and not null; absent or
\* null, it is None
Given(obj, key) == Has(obj, key) /\ obj[key] # Null
\* Optional[str], Optional[Dict[str, Any]] and Optional[List[Dict[str, Any]]]
OptionalStr(obj, key) == Given(obj, key) => IsStr(obj[key])
OptionalDict(obj, key) == Given(obj, key) => IsDict(obj[key])
OptionalDictList(obj, key) ==
    Given(obj, key) => /\ IsList(obj[key])
                       /\ \A k \in DOMAIN obj[key].a : IsDict(obj[key].a[k])
\* start and end are Optional[datetime], duration is Optional[float]; the
\* values inside the objects are Any
ValidHAEWorkout(w) ==
    /\ Given(w, "start") => parse_swift_datetime(w.start).ok
    /\ Given(w, "end") => parse_swift_datetime(w.end).ok
    /\ Given(w, "duration") => IsFloat(w.duration)
    /\ \A key \in {"workoutType", "location", "source"} : OptionalStr(w, key)
    /\ \A key \in {"activeEnergyBurned", "intensity", "metadata"} : OptionalDict(w, key)
    /\ \A key \in {"activeEnergy", "heartRateRecovery", "heartRateData"} :
           OptionalDictList(w, key)
HAEWorkout(w) ==
    [start |-> IF Given(w, "start") THEN <<DateOf(w, "start")>> ELSE <<>>,
     end |-> IF Given(w, "end") THEN <<DateOf(w, "end")>> ELSE <<>>,
     duration |-> IF Given(w, "duration") THEN <<FloatOf(w.duration)>> ELSE <<>>,
     tzinfo |-> [start |-> Given(w, "start") /\ AwareOf(w, "start"),
                 end |-> Given(w, "end") /\ AwareOf(w, "end")],
     activeEnergyBurned |->
         IF Given(w, "activeEnergyBurned") THEN <<w.activeEnergyBurned.d>> ELSE <<>>,
     activeEnergy |->
         IF Given(w, "activeEnergy")
         THEN <<[k \in DOMAIN w.activeEnergy.a |-> w.activeEnergy.a[k].d]>>
         ELSE <<>>]

\* a discriminator that also looks at the units of the block
metric_discriminator_units(v) ==
    IF Has(v, "name") /\ v.name = Str("sleep_analysis")
       /\ Has(v, "units") /\ v.units = Str("hr")
    THEN "sleep" ELSE "common"

\* the tag of a metric block, decided by its name
metric_discriminator(v) ==
    IF Has(v, "name") /\ v.name = Str("sleep_analysis") THEN "sleep" ELSE "common"

ValidCommonMetric(m) ==
    /\ ValidStr(m, "name") /\ ValidStr(m, "units") /\ Has(m, "data")
    /\ \A j \in 1..Len(m.data) : ValidCommonPoint(m.data[j])
CommonMetric(m) ==
    [name |-> StrOf(m.name), units |-> StrOf(m.units),
     data |-> [j \in 1..Len(m.data) |-> CommonPoint(m.data[j])]]

ValidSleepMetric(m) ==
    /\ Has(m, "name") /\ m.name = Str("sleep_analysis")
    /\ ValidStr(m, "units") /\ Has(m, "data")
    /\ \A j \in 1..Len(m.data) : ValidSleepEntry(m.data[j])
SleepMetric(m) ==
    [name |-> StrOf(m.name), units |-> StrOf(m.units),
     data |-> [j \in 1..Len(m.data) |-> SleepEntry(m.data[j])]]

\* the discriminated union: the tag chooses the model the block is validated as
ValidMetricUnion(m) ==
    IF metric_discriminator(m) = "sleep" THEN ValidSleepMetric(m) ELSE ValidCommonMetric(m)
MetricUnion(m) ==
    IF metric_discriminator(m) = "sleep" THEN SleepMetric(m) ELSE CommonMetric(m)

\* metrics and workouts default to the empty list
RawMetrics(data) == IF Has(data, "metrics") THEN data.metrics ELSE <<>>
RawWorkouts(data) == IF Has(data, "workouts") THEN data.workouts ELSE <<>>
ValidDataNode(data) ==
    /\ \A i \in 1..Len(RawMetrics(data)) : ValidMetricUnion(RawMetrics(data)[i])
    /\ \A k \in 1..Len(RawWorkouts(data)) : ValidHAEWorkout(RawWorkouts(data)[k])
DataNode(data) ==
    [metrics |-> [i \in 1..Len(RawMetrics(data)) |-> MetricUnion(RawMetrics(data)[i])],
     workouts |-> [k \in 1..Len(RawWorkouts(data)) |-> HAEWorkout(RawWorkouts(data)[k])]]

\* data is required, request_id is Optional[str]
ValidHealthAutoExportPayload(doc) ==
    Has(doc, "data") /\ ValidDataNode(doc.data) /\ OptionalStr(doc, "request_id")
HealthAutoExportPayload(doc) == [data |-> DataNode(doc.data)]

(***************************************************************************)
(* Storage.  A row of health_metrics is unique on (user_id, metric_name,   *)
(* timestamp), a row of sleep_metrics on (user_id, start_time).            *)
(***************************************************************************)
HealthKey(r) == <<r.user_id, r.metric_name, r.timestamp>>
SleepKey(r) == <<r.user_id, r.start_time>>

Rows(table) == {table[i] : i \in DOMAIN table}

\* INSERT ... ON CONFLICT (...) DO UPDATE: the incoming row replaces the stored
InsertHealth_upsert(table, row) ==
    IF \E r \in Rows(table) : HealthKey(r) = HealthKey(row)
    THEN [i \in DOMAIN table |->
              IF HealthKey(table[i]) = HealthKey(row) THEN row ELSE table[i]]
    ELSE Append(table, row)

\* an INSERT without the ON CONFLICT clause on a table without the unique key
InsertHealth_always(table, row) == Append(table, row)

\* INSERT ... ON CONFLICT (user_id, metric_name, timestamp) DO NOTHING
InsertHealth(table, row) ==
    IF \E r \in Rows(table) : HealthKey(r) = HealthKey(row) THEN table
    ELSE Append(table, row)
\* INSERT ... ON CONFLICT (user_id, start_time) DO NOTHING
InsertSleep(table, row) ==
    IF \E r \in Rows(table) : SleepKey(r) = SleepKey(row) THEN table
    ELSE Append(table, row)

(***************************************************************************)
(* The environment of one call: whether the database URL is configured,    *)
(* whether asyncpg.connect succeeds, which conn.execute of the call raises *)
(* (its ordinal, 0 for none) and whether conn.close succeeds.              *)
(***************************************************************************)
NoFault == [db_url |-> TRUE, connect_ok |-> TRUE, fail_at |-> 0, close_ok |-> TRUE]

\* a test of the URL that never raises
Configured_always(env) == TRUE

\* if not database_url: raise HTTPException(500), before any await
Configured(env) == env.db_url
\* await asyncpg.connect(database_url)
asyncpg_connect(env) == env.connect_ok
\* get_db_connection: raises when no URL is configured or the connect fails
get_db_connection(env) == Configured(env) /\ asyncpg_connect(env)

(***************************************************************************)
(* A session threads the storage through the statements of one call:       *)
(* the two tables, the clock, the number of statements executed so far and *)
(* the trace of what each record of the payload did.                       *)
(***************************************************************************)
Session(H, S, clk) == [health |-> H, sleep |-> S, clock |-> clk, n |-> 0, log |-> <<>>]

\* whether the INSERT of row changes the table
Changes(db, table, row) ==
    IF table = "health_metrics" THEN InsertHealth(db.health, row) # db.health
    ELSE InsertSleep(db.sleep, row) # db.sleep
\* await conn.execute(...) of one INSERT; src names the record it comes from;
\* the trace keeps whether the statement raised and whether it changed the
\* table
execute(db, table, row, env, src) ==
    LET n == db.n + 1
        raised == (n = env.fail_at)
        entry == [table |-> table, src |-> src, row |-> row, raised |-> raised,
                  changed |-> ~raised /\ Changes(db, table, row)]
    IN  [db EXCEPT !.n = n,
                   !.log = Append(@, entry),
                   !.health = IF table = "health_metrics" /\ ~raised
                              THEN InsertHealth(@, row) ELSE @,
                   !.sleep = IF table = "sleep_metrics" /\ ~raised
                             THEN InsertSleep(@, row) ELSE @]
Raised(db) == db.log[Len(db.log)].raised

\* int(x) of the float n / d, d > 0: truncation toward zero
TruncDiv(n, d) == IF n >= 0 THEN n \div d ELSE -((-n) \div d)

RECURSIVE GCD(_, _)
GCD(a, b) == IF b = 0 THEN a ELSE GCD(b, a % b)
Abs(n) == IF n < 0 THEN -n ELSE n
Sign(n) == IF n < 0 THEN -1 ELSE 1
\* the quotient n / d, d # 0, as a fraction in lowest terms with a positive
\* denominator
Ratio(n, d) ==
    <<Sign(n) * Sign(d) * (Abs(n) \div GCD(Abs(n), Abs(d))), Abs(d) \div GCD(Abs(n), Abs(d))>>

HealthRow(user_id, metric, data_point) ==
    [user_id |-> user_id, metric_name |-> metric.name, metric_unit |-> metric.units,
     timestamp |-> data_point.date, value |-> data_point.qty]

\* inserted_count += 1 unless the statement raised
\* a count that also takes in the record whose INSERT raised
Counted_raised(db, inserted_count) == [db |-> db, inserted_count |-> inserted_count + 1]

\* inserted_count += 1 follows the INSERT inside the try block: a raising INSERT
\* skips it
Counted(db, inserted_count) ==
    [db |-> db, inserted_count |-> IF Raised(db) THEN inserted_count ELSE inserted_count + 1]

\* an exception raised in the try block before the INSERT is reached (an
\* attribute the statement reads is missing, a conversion or a subtraction
\* raises): the except branch logs it and the loop continues
Excepted(db, src) ==
    [db EXCEPT !.log = Append(@, [table |-> "none", src |-> src, raised |-> TRUE, changed |-> FALSE])]

\* the try block of insert_health_metrics for one data point
HealthPoint(r, user_id, metric, data_point, env, src) ==
    IF {"date", "qty"} \subseteq DOMAIN data_point
    THEN Counted(execute(r.db, "health_metrics", HealthRow(user_id, metric, data_point),
                         env, src),
                 r.inserted_count)
    ELSE [r EXCEPT !.db = Excepted(@, src)]

\* the inner loop of insert_health_metrics over metric.data, from point j on;
\* r is the session and the count so far
RECURSIVE HealthPoints(_, _, _, _, _, _)
HealthPoints(r, user_id, metric, j, env, blk) ==
    IF j > Len(metric.data) THEN r
    ELSE HealthPoints(HealthPoint(r, user_id, metric, metric.data[j], env,
                                  [kind |-> "metric", block |-> blk, idx |-> j]),
                      user_id, metric, j + 1, env, blk)

\* the outer loop of insert_health_metrics over metrics; blk is the payload
\* index of metrics[1]
RECURSIVE HealthMetrics(_, _, _, _, _)
HealthMetrics(r, user_id, metrics, env, blk) ==
    IF metrics = <<>> THEN r
    ELSE HealthMetrics(HealthPoints(r, user_id, metrics[1], 1, env, blk),
                       user_id, Tail(metrics), env, blk + 1)

\* insert_health_metrics(conn, user_id, metrics)
insert_health_metrics(db, user_id, metrics, env, blk) ==
    HealthMetrics([db |-> db, inserted_count |-> 0], user_id, metrics, env, blk)

\* minutes rounded to the nearest whole one, a half going up
Minutes_rounded(eighths) == (eighths * 60 + 4) \div 8

\* hours are counted in eighths: int(hours * 60) is TruncDiv(eighths * 60, 8)
Minutes(eighths) == TruncDiv(eighths * 60, 8)
TimeInBed(sleep_entry) == TruncDiv(sleep_entry.sleepEnd - sleep_entry.sleepStart, 60)
\* int(hours * 60) raises OverflowError for an infinity and ValueError for
\* nan; sleepEnd - sleepStart raises TypeError when only one of them has a zone
SleepRaises(sleep_entry) ==
    \/ \E k \in {"totalSleep", "awake", "core", "deep", "rem"} : ~IsFinite(sleep_entry[k])
    \/ sleep_entry.tzinfo.sleepStart # sleep_entry.tzinfo.sleepEnd
\* efficiency: asleep minutes over in-bed minutes, in percent, or 0
Efficiency(total_sleep_minutes, total_time_in_bed) ==
    IF total_time_in_bed > 0
    THEN Ratio(total_sleep_minutes * 100, total_time_in_bed)
    ELSE <<0, 1>>

SleepRow(user_id, sleep_entry) ==
    LET total_sleep_minutes == Minutes(sleep_entry.totalSleep)
        awake_minutes == Minutes(sleep_entry.awake)
        core_minutes == Minutes(sleep_entry.core)
        deep_minutes == Minutes(sleep_entry.deep)
        rem_minutes == Minutes(sleep_entry.rem)
        total_time_in_bed == TimeInBed(sleep_entry)
    IN  [user_id |-> user_id,
         start_time |-> sleep_entry.sleepStart,
         end_time |-> sleep_entry.sleepEnd,
         duration_total_minutes |-> total_sleep_minutes,
         duration_in_bed_minutes |-> total_time_in_bed,
         duration_awake_minutes |-> awake_minutes,
         duration_light_minutes |-> core_minutes,
         duration_deep_minutes |-> deep_minutes,
         duration_rem_minutes |-> rem_minutes,
         efficiency |-> Efficiency(total_sleep_minutes, total_time_in_bed)]

\* the try block of insert_sleep_metrics_from_analysis for one entry
SleepSession(r, user_id, sleep_entry, env, src) ==
    IF /\ {"totalSleep", "awake", "core", "deep", "rem", "sleepStart", "sleepEnd"}
              \subseteq DOMAIN sleep_entry
       /\ ~SleepRaises(sleep_entry)
    THEN Counted(execute(r.db, "sleep_metrics", SleepRow(user_id, sleep_entry), env, src),
                 r.inserted_count)
    ELSE [r EXCEPT !.db = Excepted(@, src)]

\* the loop of insert_sleep_metrics_from_analysis, from entry j on
RECURSIVE SleepEntries(_, _, _, _, _, _)
SleepEntries(r, user_id, sleep_metric, j, env, blk) ==
    IF j > Len(sleep_metric.data) THEN r
    ELSE SleepEntries(SleepSession(r, user_id, sleep_metric.data[j], env,
                                   [kind |-> "sleep", block |-> blk, idx |-> j]),
                      user_id, sleep_metric, j + 1, env, blk)

\* insert_sleep_metrics_from_analysis(conn, user_id, sleep_metric)
insert_sleep_metrics_from_analysis(db, user_id, sleep_metric, env, blk) ==
    SleepEntries([db |-> db, inserted_count |-> 0], user_id, sleep_metric, 1, env, blk)

\* an operation on a value that is no number raises TypeError
TypeError == [t |-> "TypeError"]
\* total_calories += energy_point['qty'] over the series from element k on,
\* total_calories being total so far: a qty that is no number raises
RECURSIVE SumQty(_, _, _)
SumQty(series, k, total) ==
    IF k > Len(series) THEN Num(total)
    ELSE IF ~Has(series[k], "qty") THEN SumQty(series, k + 1, total)
    ELSE IF ~IsNum(series[k].qty) THEN TypeError
    ELSE SumQty(series, k + 1, FloatAdd(total, series[k].qty.v))

\* a test of activeEnergyBurned for presence instead of truthiness
TotalCalories_present(workout) ==
    IF workout.activeEnergyBurned # <<>>
    THEN IF Has(workout.activeEnergyBurned[1], "qty")
         THEN workout.activeEnergyBurned[1].qty ELSE Num(0)
    ELSE IF workout.activeEnergy # <<>> /\ Len(workout.activeEnergy[1]) > 0
         THEN SumQty(workout.activeEnergy[1], 1, 0)
         ELSE Num(0)

\* total_calories of a workout: a non-empty activeEnergyBurned object gives
\* its qty as it is, number or not (0 when it has none), else a non-empty
\* activeEnergy list gives the sum, or raises
TotalCalories(workout) ==
    IF workout.activeEnergyBurned # <<>> /\ DOMAIN workout.activeEnergyBurned[1] # {}
    THEN IF Has(workout.activeEnergyBurned[1], "qty")
         THEN workout.activeEnergyBurned[1].qty ELSE Num(0)
    ELSE IF workout.activeEnergy # <<>> /\ Len(workout.activeEnergy[1]) > 0
         THEN SumQty(workout.activeEnergy[1], 1, 0)
         ELSE Num(0)

WorkoutRow(user_id, workout_timestamp, total_calories) ==
    [user_id |-> user_id, metric_name |-> "workout", metric_unit |-> "cal",
     timestamp |-> workout_timestamp, value |-> total_calories]

\* workout.end - workout.start, taken when both are given, raises TypeError
\* when only one of them has a zone
DurationRaises(workout) ==
    /\ workout.start # <<>> /\ workout.end # <<>>
    /\ workout.tzinfo.start # workout.tzinfo.end

\* workout.start or datetime.now(timezone.utc): the clock is read only when the
\* workout has no start and the sum of its series has not raised before, and
\* it has moved on by the next reading
WorkoutTimestamp(workout, clk) == IF workout.start # <<>> THEN workout.start[1] ELSE clk
AfterTimestamp(workout, db) ==
    IF workout.start # <<>> \/ TotalCalories(workout).t = "TypeError" THEN db
    ELSE [db EXCEPT !.clock = @ + 1]

\* the INSERT of one workout, made only if total_calories > 0
WorkoutWrite(r, user_id, workout_timestamp, total_calories, env, src) ==
    IF IsPositive(total_calories)
    THEN Counted(execute(r.db, "health_metrics",
                         WorkoutRow(user_id, workout_timestamp, total_calories), env, src),
                 r.inserted_count)
    ELSE [r EXCEPT !.db.log = Append(@, [table |-> "none", src |-> src, raised |-> FALSE, changed |-> FALSE])]

\* the try block of insert_workout_metrics for one workout: the sum of the
\* series or the duration may raise, and so does total_calories > 0 when the
\* qty of activeEnergyBurned is no number
Workout(r, user_id, workout, workout_timestamp, env, src) ==
    IF TotalCalories(workout).t = "TypeError" \/ DurationRaises(workout)
    THEN [r EXCEPT !.db = Excepted(@, src)]
    ELSE IF ~IsNum(TotalCalories(workout)) THEN [r EXCEPT !.db = Excepted(@, src)]
    ELSE WorkoutWrite(r, user_id, workout_timestamp, TotalCalories(workout).v, env, src)

\* the loop of insert_workout_metrics, from workout k on
RECURSIVE Workouts(_, _, _, _, _)
Workouts(r, user_id, workouts, k, env) ==
    IF k > Len(workouts) THEN r
    ELSE Workouts(Workout([r EXCEPT !.db = AfterTimestamp(workouts[k], @)], user_id,
                          workouts[k], WorkoutTimestamp(workouts[k], r.db.clock), env,
                          [kind |-> "workout", block |-> 0, idx |-> k]),
                  user_id, workouts, k + 1, env)

\* insert_workout_metrics(conn, user_id, workouts)
insert_workout_metrics(db, user_id, workouts, env) ==
    Workouts([db |-> db, inserted_count |-> 0], user_id, workouts, 1, env)

(***************************************************************************)
(* The webhook handler.                                                    *)
(***************************************************************************)
WebhookResponse(success, processed, request_hash) ==
    [success |-> success, processed |-> processed, request_hash |-> request_hash]
ZeroCounts == [metrics |-> 0, sleep |-> 0, workouts |-> 0]
ErrorResponse == WebhookResponse(FALSE, ZeroCounts, "error")

\* processed_counts[key] += the count a writer returned
Added(processed_counts, key, r) ==
    [db |-> r.db,
     processed_counts |-> [processed_counts EXCEPT ![key] = @ + r.inserted_count]]

\* one block of payload.data.metrics: a block named sleep_analysis goes to the
\* sleep writer, any other block to the health-metric writer
ProcessMetric(p, user_id, metric, i, env) ==
    IF metric.name = "sleep_analysis"
    THEN Added(p.processed_counts, "sleep",
               insert_sleep_metrics_from_analysis(p.db, user_id, metric, env, i))
    ELSE Added(p.processed_counts, "metrics",
               insert_health_metrics(p.db, user_id, <<metric>>, env, i))

\* the loop over payload.data.metrics, from block i on
RECURSIVE ProcessMetrics(_, _, _, _, _)
ProcessMetrics(p, user_id, metrics, i, env) ==
    IF i > Len(metrics) THEN p
    ELSE ProcessMetrics(ProcessMetric(p, user_id, metrics[i], i, env),
                        user_id, metrics, i + 1, env)

\* processed_counts["workouts"] = workouts_inserted
Assigned(processed_counts, r) ==
    [db |-> r.db,
     processed_counts |-> [processed_counts EXCEPT !.workouts = r.inserted_count]]

\* the workouts are written only if the payload has any
ProcessWorkouts(p, user_id, workouts, env) ==
    IF workouts # <<>>
    THEN Assigned(p.processed_counts, insert_workout_metrics(p.db, user_id, workouts, env))
    ELSE p

\* the outcome of one call: the tables and the clock it leaves, its response and
\* its trace
Outcome(H, S, clk, response, log, connected) ==
    [health |-> H, sleep |-> S, clock |-> clk, response |-> response, log |-> log,
     connected |-> connected]

\* the return in the try block and conn.close() in the finally block: when
\* close raises, the outer handler answers instead
Respond(p, env) ==
    Outcome(p.db.health, p.db.sleep, p.db.clock,
            IF env.close_ok THEN WebhookResponse(TRUE, p.processed_counts, "success")
            ELSE ErrorResponse,
            p.db.log, TRUE)

\* the body of the handler once the payload is validated and the connection open
ProcessPayload(db, user_id, payload, env) ==
    ProcessWorkouts(ProcessMetrics([db |-> db, processed_counts |-> ZeroCounts],
                                   user_id, payload.data.metrics, 1, env),
                    user_id, payload.data.workouts, env)

health_auto_export_webhook(H, S, clk, user_id, request, env) ==
    IF ~request.json
    THEN Outcome(H, S, clk, ErrorResponse, <<>>, FALSE)        \* json.loads raises
    ELSE IF ~ValidHealthAutoExportPayload(request.doc)
    THEN Outcome(H, S, clk, ErrorResponse, <<>>, FALSE)        \* HTTPException(422)
    ELSE IF ~get_db_connection(env)
    THEN Outcome(H, S, clk, ErrorResponse, <<>>, FALSE)        \* no connection
    ELSE Respond(ProcessPayload(Session(H, S, clk), user_id,
                                HealthAutoExportPayload(request.doc), env), env)

(***************************************************************************)
(* Inputs of the ingestion specification.                                  *)
(***************************************************************************)
MaxBodySize == 3     \* blocks + data points + workouts of one payload
MaxRedeliver == 1    \* re-deliveries of one payload

Users == {"u1", "u2"}

tA  == SwiftTs(<<2025, 6, 25>>, <<0, 0, 0>>, <<1, 2, 0>>)     \* 2025-06-25 00:00:00 +0200
tAz == IsoZTs(<<2025, 6, 24>>, <<22, 0, 0>>)                  \* 2025-06-24T22:00:00Z
tB  == SwiftTs(<<2025, 6, 25>>, <<0, 0, 45>>, <<1, 2, 0>>)    \* 2025-06-25 00:00:45 +0200
tC  == IsoOffTs(<<2025, 6, 25>>, <<8, 0, 0>>, <<1, 2, 0>>)    \* 2025-06-25T08:00:00+02:00
tN  == NaiveTs(<<2025, 6, 25>>, <<0, 0, 0>>)                  \* 2025-06-25T00:00:00

\* a sleep session; hours in eighths (57 eighths = 7.125 h)
SleepObj(start, end, total, core) ==
    [date |-> end, asleep |-> Num(56), awake |-> Num(3), core |-> Num(core),
     deep |-> Num(9), rem |-> Num(17), sleepStart |-> start, sleepEnd |-> end,
     source |-> Str("watch"), totalSleep |-> Num(total)]

cA1    == [date |-> tA, qty |-> Num(1)]
cAz2   == [date |-> tAz, qty |-> NumStr(2)]          \* "2", taken as 2.0
cJunk  == [date |-> JunkTs, qty |-> Num(1)]            \* unparsable timestamp
cStr   == [date |-> tB, qty |-> Str("high")]           \* wrongly typed qty
sNight == SleepObj(tA, tC, 57, 31) @@ [qty |-> Num(7)] \* fits both shapes
\* fits both shapes: a point of quantity inf at a time without a zone, and a
\* session that starts at a time without a zone and ends at one with a zone
sMixed == SleepObj(tN, tC, 57, 31) @@ [qty |-> Str("inf")]
DataPoints == {cA1, cAz2, cJunk, cStr, sNight, sMixed}

Headers == {<<"heart_rate_variability", "ms">>, <<"sleep_analysis", "hr">>,
            <<"sleep_analysis", "ms">>}

Cal(q) == Obj([qty |-> Num(q), units |-> Str("cal")])
wAgg    == [start |-> tA, end |-> tC, activeEnergyBurned |-> Cal(100)]
wSeries == [activeEnergy |-> Arr(<<Cal(100), Cal(50)>>)]    \* no start time
wZero   == [start |-> tB, activeEnergyBurned |-> Cal(0)]
wJunk   == [start |-> JunkTs, activeEnergyBurned |-> Cal(100)]
wMixed  == [start |-> tN, end |-> tC, activeEnergyBurned |-> Cal(100)]
WorkoutObjs == {wAgg, wSeries, wZero, wJunk, wMixed}

\* sequences of exactly n elements of S
SeqsOfLen(S, n) == [1..n -> S]

\* metric blocks of size n: one for the block and n - 1 data points
BlocksOfSize(n) ==
    {[name |-> Str(h[1]), units |-> Str(h[2]), data |-> d] :
        h \in Headers, d \in SeqsOfLen(DataPoints, n - 1)}

\* lists of metric blocks of total size n
RECURSIVE MetricLists(_)
MetricLists(n) ==
    IF n = 0 THEN {<<>>}
    ELSE UNION {{<<b>> \o rest : b \in BlocksOfSize(k), rest \in MetricLists(n - k)} :
                    k \in 1..n}

\* the documents of at most MaxBodySize blocks, data points and workouts
Docs ==
    UNION {{[data |-> [metrics |-> ms, workouts |-> ws]] :
                ms \in MetricLists(ab[1]), ws \in SeqsOfLen(WorkoutObjs, ab[2])} :
           ab \in {x \in (0..MaxBodySize) \X (0..MaxBodySize) : x[1] + x[2] <= MaxBodySize}}

DocNoData == [request_id |-> Str("r1")]      \* no data envelope
DocBare == [data |-> EmptyDict]              \* neither metrics nor workouts
Unparsable == [json |-> FALSE]               \* a body json.loads rejects
Request(doc) == [json |-> TRUE, doc |-> doc]
Requests == {Unparsable} \cup {Request(d) : d \in Docs \cup {DocNoData, DocBare}}

NoUrl == [NoFault EXCEPT !.db_url = FALSE]
Refused == [NoFault EXCEPT !.connect_ok = FALSE]
CloseFails == [NoFault EXCEPT !.close_ok = FALSE]
FirstWriteFails == [NoFault EXCEPT !.fail_at = 1]
Envs == {NoFault, NoUrl, Refused, CloseFails, FirstWriteFails}

\* rows an earlier call stored
Instant(ts) == parse_swift_datetime(ts).instant
SeedHealth ==
    <<[user_id |-> "u1", metric_name |-> "heart_rate_variability", metric_unit |-> "ms",
       timestamp |-> Instant(tA), value |-> 9],
      WorkoutRow("u1", Instant(tA), 70)>>
SeedSleep == <<SleepRow("u1", SleepEntry(SleepObj(tA, tB, 40, 31)))>>

\* the first reading of the clock: 2025-07-01T00:00:00Z
Now0 == Instant(IsoZTs(<<2025, 7, 1>>, <<0, 0, 0>>))


(***************************************************************************)
(* The handler step by step.  A call runs on the event loop until it       *)
(* awaits: request.body(), asyncpg.connect, each conn.execute and          *)
(* conn.close() are its awaits, and between two of them other calls may    *)
(* run.  Each statement is atomic in the database.  A call is at "body",   *)
(* "connect", "execute" or "close" while the await of that name is         *)
(* pending, and "returned" once it has answered.                           *)
(***************************************************************************)
NoResponse == WebhookResponse(FALSE, ZeroCounts, "none")
MaxCalls == 2        \* webhook calls of one behaviour
IdleCall == [pc |-> "idle"]
InFlight(call) == call.pc \notin {"idle", "returned"}
NoCall ==
    [attempt |-> 0, user_id |-> "", request |-> Unparsable, env |-> NoFault,
     response |-> NoResponse, log |-> <<>>, connected |-> FALSE, alone |-> TRUE,
     health0 |-> <<>>, sleep0 |-> <<>>, clock0 |-> 0, health |-> <<>>, sleep |-> <<>>,
     prev |-> [attempt |-> 0, response |-> NoResponse, log |-> <<>>]]

\* the records of a validated payload in the order the handler writes them
RECURSIVE PointsFrom(_, _, _)
PointsFrom(metrics, i, j) ==
    IF i > Len(metrics) THEN <<>>
    ELSE IF j > Len(metrics[i].data) THEN PointsFrom(metrics, i + 1, 1)
    ELSE <<[kind |-> IF metrics[i].name = "sleep_analysis" THEN "sleep" ELSE "metric",
            block |-> i, idx |-> j]>> \o PointsFrom(metrics, i, j + 1)
Records(payload) ==
    PointsFrom(payload.data.metrics, 1, 1)
        \o [k \in 1..Len(payload.data.workouts) |-> [kind |-> "workout", block |-> 0, idx |-> k]]

\* the handler is called and awaits request.body(); the call keeps the tables
\* it found, the call that had returned last, and whether no other call is in
\* flight
Arrived(user_id, request, env, attempt) ==
    [pc |-> "body", attempt |-> attempt, user_id |-> user_id, request |-> request,
     env |-> env, payload |-> EmptyDict, conn |-> "none", n |-> 0, log |-> <<>>,
     todo |-> <<>>, stamp |-> 0, processed_counts |-> ZeroCounts, response |-> NoResponse,
     health0 |-> health_metrics, sleep0 |-> sleep_metrics, clock0 |-> clock,
     prev |-> [attempt |-> last.attempt, response |-> last.response, log |-> last.log],
     alone |-> \A b \in DOMAIN calls : ~InFlight(calls[b])]
\* the handler returns
Responded(call, response) == [call EXCEPT !.pc = "returned", !.response = response]

\* raw_body = await request.body() has returned: json.loads, the validation
\* and the test of the database URL follow with no await between them
Received(call) ==
    IF ~call.request.json THEN Responded(call, ErrorResponse)
    ELSE IF ~ValidHealthAutoExportPayload(call.request.doc)
    THEN Responded(call, ErrorResponse)
    ELSE IF ~Configured(call.env) THEN Responded(call, ErrorResponse)
    ELSE [call EXCEPT !.pc = "connect",
                      !.payload = HealthAutoExportPayload(call.request.doc)]

\* the session of a call at a statement: the tables as they are now
SessionOf(call) ==
    [health |-> health_metrics, sleep |-> sleep_metrics, clock |-> clock,
     n |-> call.n, log |-> call.log]
\* the writer's try block for record rec of the call on session db; stamp is
\* the reading of the clock its timestamp takes when the record has none
WriteRecord(call, rec, db, stamp) ==
    IF rec.kind = "sleep"
    THEN SleepSession([db |-> db, inserted_count |-> 0], call.user_id,
                      call.payload.data.metrics[rec.block].data[rec.idx], call.env, rec)
    ELSE IF rec.kind = "metric"
    THEN HealthPoint([db |-> db, inserted_count |-> 0], call.user_id,
                     call.payload.data.metrics[rec.block],
                     call.payload.data.metrics[rec.block].data[rec.idx], call.env, rec)
    ELSE Workout([db |-> db, inserted_count |-> 0], call.user_id,
                 call.payload.data.workouts[rec.idx],
                 WorkoutTimestamp(call.payload.data.workouts[rec.idx], stamp), call.env, rec)
\* the clock after the try block of record rec has taken its timestamp
ClockAfter(call, rec, db) ==
    IF rec.kind = "workout"
    THEN AfterTimestamp(call.payload.data.workouts[rec.idx], db).clock ELSE db.clock
CountKey(rec) ==
    IF rec.kind = "sleep" THEN "sleep" ELSE IF rec.kind = "metric" THEN "metrics" ELSE "workouts"

\* the call runs on to its next await: the records that issue no statement
\* are passed, the first record that issues one leaves the call at its
\* conn.execute with the timestamp it has taken, and a call with no record
\* left is at conn.close() in the finally block; r is what the try block of
\* the next record does
RECURSIVE Await(_, _)
Awaits(call, db, r, after) ==
    IF r.db.log[Len(r.db.log)].table = "none"
    THEN Await([call EXCEPT !.log = r.db.log, !.todo = Tail(@)],
               [db EXCEPT !.log = r.db.log, !.clock = after])
    ELSE [call |-> [call EXCEPT !.pc = "execute", !.stamp = db.clock], clock |-> after]
Await(call, db) ==
    IF call.todo = <<>> THEN [call |-> [call EXCEPT !.pc = "close"], clock |-> db.clock]
    ELSE Awaits(call, db, WriteRecord(call, Head(call.todo), db, db.clock),
                ClockAfter(call, Head(call.todo), db))

\* conn = await get_db_connection() has returned or raised
Connected(call) ==
    IF ~asyncpg_connect(call.env)
    THEN [call |-> Responded(call, ErrorResponse), clock |-> clock]
    ELSE Await([call EXCEPT !.conn = "open", !.todo = Records(call.payload)],
               SessionOf(call))

\* await conn.execute(...) of the record the call is at has returned or
\* raised; r is what the statement has done
Executed(call, r) ==
    Await([call EXCEPT !.n = r.db.n, !.log = r.db.log, !.todo = Tail(@),
                       !.processed_counts[CountKey(Head(call.todo))] = @ + r.inserted_count],
          [r.db EXCEPT !.clock = clock])

\* a close that is skipped when a statement of the call has raised
CloseConnection_if_clean(call) ==
    IF \A e \in DOMAIN call.log : ~call.log[e].raised
    THEN [call EXCEPT !.conn = "closed"] ELSE call

\* await conn.close() in the finally block: asyncpg drops the connection also
\* when the close fails
CloseConnection(call) == [call EXCEPT !.conn = "closed"]
\* the return of the try block after the finally block, or the outer except
\* when the close has raised
Closed(call) ==
    Responded(CloseConnection(call),
              IF call.env.close_ok
              THEN WebhookResponse(TRUE, call.processed_counts, "success")
              ELSE ErrorResponse)

\* what is kept of a call that has returned: its input, its response, its
\* trace, the tables it found and the tables it leaves
Returns(call) ==
    [attempt |-> call.attempt, user_id |-> call.user_id, request |-> call.request,
     env |-> call.env, response |-> call.response, log |-> call.log,
     connected |-> call.conn # "none", alone |-> call.alone,
     health0 |-> call.health0, sleep0 |-> call.sleep0, clock0 |-> call.clock0,
     health |-> health_metrics', sleep |-> sleep_metrics', prev |-> call.prev]

Init ==
    /\ health_metrics = SeedHealth
    /\ sleep_metrics = SeedSleep
    /\ clock = Now0
    /\ last = NoCall
    /\ calls = [c \in 1..MaxCalls |-> IdleCall]
    /\ reader = IdleCall

\* POST /hae/webhook/{user_id}: call c arrives
Webhook(c, user_id, request, env) ==
    /\ calls[c].pc = "idle"
    /\ calls' = [b \in DOMAIN calls |->
                    IF b = c THEN Arrived(user_id, request, env, c)
                    ELSE IF InFlight(calls[b]) THEN [calls[b] EXCEPT !.alone = FALSE]
                    ELSE calls[b]]
    /\ UNCHANGED <<health_metrics, sleep_metrics, clock, last, reader>>
\* call c has moved on to its next await or has returned
Resumed(c, call, clk) ==
    /\ calls' = [calls EXCEPT ![c] = call]
    /\ clock' = clk
    /\ last' = IF call.pc = "returned" THEN Returns(call) ELSE last
    /\ reader' = reader

\* the body of a call has been read
ReadBody ==
    \E c \in DOMAIN calls :
        /\ calls[c].pc = "body"
        /\ UNCHANGED <<health_metrics, sleep_metrics>>
        /\ Resumed(c, Received(calls[c]), clock)
\* the connection of a call has been opened or refused
Connect ==
    \E c \in DOMAIN calls :
        /\ calls[c].pc = "connect"
        /\ UNCHANGED <<health_metrics, sleep_metrics>>
        /\ Resumed(c, Connected(calls[c]).call, Connected(calls[c]).clock)
\* the statement a call is at has run; r is what it has done
Statement(c, r) ==
    /\ health_metrics' = r.db.health
    /\ sleep_metrics' = r.db.sleep
    /\ Resumed(c, Executed(calls[c], r).call, Executed(calls[c], r).clock)
Execute ==
    \E c \in DOMAIN calls :
        /\ calls[c].pc = "execute"
        /\ Statement(c, WriteRecord(calls[c], Head(calls[c].todo), SessionOf(calls[c]),
                                    calls[c].stamp))
\* the connection of a call has been closed
Close ==
    \E c \in DOMAIN calls :
        /\ calls[c].pc = "close"
        /\ UNCHANGED <<health_metrics, sleep_metrics>>
        /\ Resumed(c, Closed(calls[c]), clock)

\* the export tool delivers a payload
Deliver ==
    /\ calls[1].pc = "idle"
    /\ \E u \in Users, req \in Requests, env \in Envs : Webhook(1, u, req, env)

\* the export tool delivers the same payload again, be the earlier delivery
\* answered or not
Redeliver ==
    \E c \in 2..(MaxRedeliver + 1) :
        /\ c \in DOMAIN calls
        /\ calls[c].pc = "idle" /\ calls[c - 1].pc # "idle"
        /\ \E env \in Envs : Webhook(c, calls[1].user_id, calls[1].request, env)

Next == Deliver \/ Redeliver \/ ReadBody \/ Connect \/ Execute \/ Close

Spec == Init /\ [][Next]_vars

(***************************************************************************)
(* Properties of the ingestion call.  `last` records the call that has     *)
(* returned last: its inputs, its response, the trace of its records, the  *)
(* tables it found when it arrived and the tables it left when it          *)
(* returned, and whether it ran alone (no other call was in flight between *)
(* its arrival and its return).                                            *)
(***************************************************************************)
Called == last.attempt >= 1
LastBlocks == IF Has(last.request.doc, "data") THEN RawMetrics(last.request.doc.data) ELSE <<>>
LastWorkouts == IF Has(last.request.doc, "data") THEN RawWorkouts(last.request.doc.data) ELSE <<>>
Clean(log) == \A e \in DOMAIN log : ~log[e].raised
\* the call has written nothing: none of its statements changed a table, and
\* a call that ran alone leaves the tables as it found them
Unchanged ==
    /\ \A e \in DOMAIN last.log : ~last.log[e].changed
    /\ last.alone => (last.health = last.health0 /\ last.sleep = last.sleep0)
\* the statements of the call, of records of one kind, that added a row
AddedBy(kind) == {e \in DOMAIN last.log : last.log[e].changed /\ last.log[e].src.kind = kind}
Stored(table, key) == \E r \in Rows(table) : HealthKey(r) = key
\* the trace entry of data point j of block i, of workout k
EntryOf(e, i, j) ==
    last.log[e].src.kind # "workout" /\ last.log[e].src.block = i /\ last.log[e].src.idx = j
EntryOfWorkout(e, k) == last.log[e].src.kind = "workout" /\ last.log[e].src.idx = k

\* the natural key data point pt of common block b would be stored under
PointKey(b, pt) == <<last.user_id, StrOf(b.name), Instant(pt.date)>>
\* a call with one common block and no workout, whose block has exactly one
\* malformed data point, the others being valid, distinct and not yet stored
OneMalformedPoint(b) ==
    /\ ValidStr(b, "name") /\ ValidStr(b, "units") /\ b.name # Str("sleep_analysis")
    /\ Cardinality({j \in DOMAIN b.data : ~ValidCommonPoint(b.data[j])}) = 1
    /\ \A j \in DOMAIN b.data :
           ValidCommonPoint(b.data[j]) =>
               /\ ~Stored(last.health0, PointKey(b, b.data[j]))
               /\ \A k \in DOMAIN b.data :
                      (k # j /\ ValidCommonPoint(b.data[k])) =>
                          Instant(b.data[k].date) # Instant(b.data[j].date)

\* C1: a call whose one metric block has exactly one malformed data point
\* among n, the others valid with distinct timestamps not yet stored, returns
\* success=true and has inserted exactly n-1 rows.
C1_PerRecordIsolation ==
    (/\ Called /\ last.env = NoFault /\ last.request.json
     /\ Len(LastBlocks) = 1 /\ Len(LastWorkouts) = 0
     /\ Len(LastBlocks[1].data) >= 2
     /\ OneMalformedPoint(LastBlocks[1]))
    => /\ last.response.success
       /\ Cardinality(AddedBy("metric")) = Len(LastBlocks[1].data) - 1
       /\ AddedBy("sleep") = {} /\ AddedBy("workout") = {}

\* a valid payload of common-metric blocks only
CommonOnly ==
    /\ last.request.json /\ ValidHealthAutoExportPayload(last.request.doc)
    /\ LastWorkouts = <<>>
    /\ \A i \in DOMAIN LastBlocks : LastBlocks[i].name # Str("sleep_analysis")
\* the call is a re-delivery that arrived after an earlier delivery had
\* completed with no storage fault, and that ran alone
Redelivered ==
    /\ last.attempt >= 2 /\ last.alone
    /\ last.prev.attempt >= 1 /\ last.prev.response.success /\ Clean(last.prev.log)

\* C2: for a valid payload of common-metric blocks only, the second of two
\* calls with the same payload and user leaves health_metrics exactly as the
\* first call left it: same rows, same count, same values.
C2_CommonIdempotent == (Redelivered /\ CommonOnly) => Unchanged

\* a second delivery whose first delivery stored every point of the payload
C2_Witness ==
    /\ Redelivered /\ CommonOnly /\ last.env = NoFault /\ last.response.success
    /\ Len(last.health0) > Len(SeedHealth)
    /\ last.response.processed.metrics >= 2
    /\ Unchanged

\* C3: a second call with the identical payload and user, whatever mix of
\* common blocks, sleep sessions and workouts it carries (workouts without a
\* start time included), adds no row and changes no row.
C3_RedeliveryNoOp ==
    (Redelivered /\ last.request.json /\ ValidHealthAutoExportPayload(last.request.doc))
    => Unchanged

\* C4: a call that cannot get a storage connection, or whose body does not
\* parse into the payload envelope, answers success=false with all counts 0
\* and has written no row.
C4_CallLevelFailure ==
    (/\ Called
     /\ \/ ~last.env.db_url \/ ~last.env.connect_ok
        \/ ~last.request.json \/ ~ValidHealthAutoExportPayload(last.request.doc))
    => /\ last.response.success = FALSE
       /\ last.response.processed = ZeroCounts
       /\ Unchanged

\* a refused connection for a payload that would otherwise have stored a row
C4_Witness ==
    /\ last.attempt = 1 /\ last.env = Refused /\ last.user_id = "u2"
    /\ last.request = Request([data |-> [metrics |-> <<[name |-> Str("heart_rate_variability"),
                                                       units |-> Str("ms"),
                                                       data |-> <<cA1>>]>>,
                                        workouts |-> <<>>]])
    /\ last.response = ErrorResponse
    /\ Unchanged

\* C5: a workout that fails validation is skipped alone: the call returns
\* success=true, and every data point of every block and every other workout
\* of the payload is still processed.
C5_WorkoutIsolation ==
    (/\ Called /\ last.env = NoFault /\ last.request.json
     /\ Has(last.request.doc, "data")
     /\ \A i \in DOMAIN LastBlocks : ValidMetricUnion(LastBlocks[i])
     /\ Cardinality({k \in DOMAIN LastWorkouts : ~ValidHAEWorkout(LastWorkouts[k])}) = 1)
    => /\ last.response.success
       /\ \A i \in DOMAIN LastBlocks : \A j \in DOMAIN LastBlocks[i].data :
              \E e \in DOMAIN last.log : EntryOf(e, i, j)
       /\ \A k \in DOMAIN LastWorkouts :
              ValidHAEWorkout(LastWorkouts[k]) => \E e \in DOMAIN last.log : EntryOfWorkout(e, k)


\* the natural key of a row of a table, the table before the call and now
KeyIn(t, r) == IF t = "health_metrics" THEN HealthKey(r) ELSE SleepKey(r)
TableBefore(t) == IF t = "health_metrics" THEN last.health0 ELSE last.sleep0
TableNow(t) == IF t = "health_metrics" THEN last.health ELSE last.sleep
\* trace entry e is an INSERT that did not raise
Issued(e) == last.log[e].table # "none" /\ ~last.log[e].raised
SameKey(e, f) ==
    /\ Issued(f) /\ last.log[f].table = last.log[e].table
    /\ KeyIn(last.log[f].table, last.log[f].row) = KeyIn(last.log[e].table, last.log[e].row)
\* the row that was first written under the key of entry e: the row stored
\* before the call if there is one, else the row of the first INSERT of the
\* call with that key
FirstWritten(e) ==
    IF \E r \in Rows(TableBefore(last.log[e].table)) :
           KeyIn(last.log[e].table, r) = KeyIn(last.log[e].table, last.log[e].row)
    THEN CHOOSE r \in Rows(TableBefore(last.log[e].table)) :
             KeyIn(last.log[e].table, r) = KeyIn(last.log[e].table, last.log[e].row)
    ELSE last.log[CHOOSE f \in 1..e : SameKey(e, f) /\ \A g \in 1..(f - 1) : ~SameKey(e, g)].row
StoredUnder(e) ==
    {r \in Rows(TableNow(last.log[e].table)) :
         KeyIn(last.log[e].table, r) = KeyIn(last.log[e].table, last.log[e].row)}

\* C14: every row stored before the call keeps its place and all its values,
\* and under the key of every INSERT of the call exactly one row is stored:
\* in a call that ran alone the one written first, be it by an earlier call
\* or by an earlier record of the same payload; a later row with that key is
\* discarded.
C14_FirstWriteWins ==
    (Called /\ last.connected) =>
        /\ SubSeq(last.health, 1, Len(last.health0)) = last.health0
        /\ SubSeq(last.sleep, 1, Len(last.sleep0)) = last.sleep0
        /\ \A e \in DOMAIN last.log :
               Issued(e) => /\ Cardinality(StoredUnder(e)) = 1
                            /\ last.alone => StoredUnder(e) = {FirstWritten(e)}

\* a payload of two points with the key of a stored row and other values:
\* both are discarded and the stored row keeps its value
C14_Witness ==
    /\ Called /\ last.user_id = "u1" /\ last.response.success
    /\ Len(LastBlocks) = 1 /\ LastBlocks[1].name = Str("heart_rate_variability")
    /\ LastBlocks[1].data = <<cA1, cAz2>>
    /\ Issued(1) /\ Issued(2)
    /\ last.log[1].row.value = 1 /\ last.log[2].row.value = 2
    /\ last.health = last.health0
    /\ \E r \in Rows(last.health) :
           HealthKey(r) = HealthKey(last.log[1].row) /\ r.value = 9

\* trace entry e is an INSERT that raised
WriteRaised(e) == last.log[e].table # "none" /\ last.log[e].raised
\* the INSERTs of records of one kind that did not raise
Succeeded(kind) == {e \in DOMAIN last.log : Issued(e) /\ last.log[e].src.kind = kind}

\* C16: when the INSERT of a record raises in a call whose connection opens and
\* closes, every data point of every block and every workout of the payload
\* still has its entry in the trace, every INSERT after the failed one that did
\* not raise has its key stored, the call returns success=true, and each count
\* is the number of records of its kind whose INSERT did not raise.
C16_WriteFailureIsolated ==
    (/\ Called /\ last.connected /\ last.env.close_ok
     /\ \E e \in DOMAIN last.log : WriteRaised(e))
    => /\ last.response.success
       /\ \A i \in DOMAIN LastBlocks : \A j \in DOMAIN LastBlocks[i].data :
              \E e \in DOMAIN last.log : EntryOf(e, i, j)
       /\ \A k \in DOMAIN LastWorkouts : \E e \in DOMAIN last.log : EntryOfWorkout(e, k)
       /\ \A e \in DOMAIN last.log : Issued(e) => StoredUnder(e) # {}
       /\ last.response.processed.metrics = Cardinality(Succeeded("metric"))
       /\ last.response.processed.sleep = Cardinality(Succeeded("sleep"))
       /\ last.response.processed.workouts = Cardinality(Succeeded("workout"))

\* the write of the first data point raises; the second point of the block
\* is written and counted
C16_Witness ==
    /\ Called /\ last.connected /\ last.env = FirstWriteFails
    /\ Len(last.log) = 2
    /\ WriteRaised(1) /\ EntryOf(1, 1, 1)
    /\ Issued(2) /\ EntryOf(2, 1, 2)
    /\ last.response.success
    /\ last.response.processed = [metrics |-> 1, sleep |-> 0, workouts |-> 0]
    /\ Len(last.health) = Len(last.health0) + 1

\* C19: a call that answers success=false has added no row to health_metrics
\* or sleep_metrics, also when the error comes after the records were written.
C19_FailureWritesNothing == (Called /\ ~last.response.success) => Unchanged


\* C20: in a successful response, processed.metrics is the number of
\* health_metrics rows the call added from metric blocks, processed.sleep the
\* number of sleep_metrics rows it added and processed.workouts the number of
\* workout rows it added.
C20_CountsAreRowsAdded ==
    (Called /\ last.response.success) =>
        /\ last.response.processed.metrics = Cardinality(AddedBy("metric"))
        /\ last.response.processed.sleep = Cardinality(AddedBy("sleep"))
        /\ last.response.processed.workouts = Cardinality(AddedBy("workout"))

\* what data point pt of block b is written as when b is named sleep_analysis,
\* and when it has any other name
AsSleep(pt) == [table |-> "sleep_metrics", row |-> SleepRow(last.user_id, SleepEntry(pt))]
AsCommon(b, pt) ==
    [table |-> "health_metrics",
     row |-> HealthRow(last.user_id, [name |-> StrOf(b.name), units |-> StrOf(b.units)], CommonPoint(pt))]
Written(e) == [table |-> last.log[e].table, row |-> last.log[e].row]

\* the sleep writer gives up data point pt before its INSERT
Unwritable(pt) == SleepRaises(SleepEntry(pt))

\* C9: in a call that reaches the writers, every data point of a block named
\* sleep_analysis is validated as a sleep session and handed to the writer of
\* sleep_metrics whatever the block's units, and every data point of any
\* other block is validated as a common point and handed to the writer of
\* health_metrics; the INSERT of a data point goes to the table of its block
\* with the row of that shape, and the only data points without an INSERT are
\* sessions the sleep writer gives up.
C9_RoutedByName ==
    (Called /\ last.connected) =>
        \A i \in DOMAIN LastBlocks : \A j \in DOMAIN LastBlocks[i].data :
            \E e \in DOMAIN last.log :
                /\ EntryOf(e, i, j)
                /\ \A f \in DOMAIN last.log : EntryOf(f, i, j) => f = e
                /\ IF LastBlocks[i].name = Str("sleep_analysis")
                   THEN /\ last.log[e].src.kind = "sleep"
                        /\ ValidSleepEntry(LastBlocks[i].data[j])
                        /\ IF Unwritable(LastBlocks[i].data[j])
                           THEN last.log[e].table = "none"
                           ELSE Written(e) = AsSleep(LastBlocks[i].data[j])
                   ELSE /\ last.log[e].src.kind = "metric"
                        /\ ValidCommonPoint(LastBlocks[i].data[j])
                        /\ Written(e) = AsCommon(LastBlocks[i], LastBlocks[i].data[j])

\* a sleep_analysis block in units other than hours, whose data point also
\* fits the common shape, written to sleep_metrics and not to health_metrics
C9_Witness ==
    /\ Called /\ last.connected /\ last.response.success /\ Len(LastBlocks) = 1
    /\ LastBlocks[1].name = Str("sleep_analysis") /\ LastBlocks[1].units = Str("ms")
    /\ LastBlocks[1].data = <<sNight>>
    /\ \E e \in DOMAIN last.log : EntryOf(e, 1, 1) /\ last.log[e].table = "sleep_metrics"
    /\ last.response.processed = [metrics |-> 0, sleep |-> 1, workouts |-> 0]
    /\ last.health = last.health0
    /\ Len(last.sleep) = Len(last.sleep0) + 1

(***************************************************************************)
(* Timestamp specification: one block of two data points whose dates are   *)
(* drawn from a wider set of timestamp strings.                            *)
(***************************************************************************)
TsDates == {<<2025, 6, 24>>, <<2025, 6, 25>>, <<2025, 6, 30>>, <<2025, 6, 31>>,
            <<2025, 7, 1>>}
TsTimes == {<<0, 0, 0>>, <<1, 0, 0>>, <<22, 0, 0>>, <<23, 30, 0>>}
TsOffsets == {<<1, 0, 0>>, <<1, 2, 0>>, <<-1, 1, 30>>}
SwiftStrings == {SwiftTs(d, t, o) : d \in TsDates, t \in TsTimes, o \in TsOffsets}
IsoZStrings == {IsoZTs(d, t) : d \in TsDates, t \in TsTimes}
\* texts without a zone, dates alone, and numerals
NaiveStrings ==
    {NaiveTs(d, t) : d \in TsDates, t \in {<<0, 0, 0>>, <<22, 0, 0>>}}
        \cup {NaiveSpaceTs(d, <<0, 0, 0>>) : d \in TsDates}
DateStrings ==
    {DateTs(d) : d \in TsDates} \cup {NumStr(20250625), NumStr(20250631), NumStr(2025)}
TsStrings == SwiftStrings \cup IsoZStrings \cup NaiveStrings \cup DateStrings \cup {JunkTs}

TsDoc(s1, s2) ==
    [data |-> [metrics |-> <<[name |-> Str("heart_rate_variability"), units |-> Str("ms"),
                              data |-> <<[date |-> s1, qty |-> Num(1)],
                                         [date |-> s2, qty |-> Num(2)]>>]>>]]

DeliverTs ==
    /\ calls[1].pc = "idle"
    /\ \E u \in Users, s1 \in TsStrings, s2 \in TsStrings :
           Webhook(1, u, Request(TsDoc(s1, s2)), NoFault)

NextTs == DeliverTs \/ ReadBody \/ Connect \/ Execute \/ Close
SpecTs == Init /\ [][NextTs]_vars

\* the civil date after a civil date
NextDay(y, m, d) ==
    IF d < DaysInMonth(y, m) THEN <<y, m, d + 1>>
    ELSE IF m < 12 THEN <<y, m + 1, 1>> ELSE <<y + 1, 1, 1>>
SecondOfDay(v) == v.h * 3600 + v.mi * 60 + v.sec
\* the second of the day of local string s in UTC, counted from the start of
\* its local day: negative on the day before, 86400 or more on the day after
UtcSecond(s) == SecondOfDay(s) - s.sign * (s.zh * 3600 + s.zm * 60)
\* string s, "YYYY-MM-DD HH:MM:SS +-HHMM", and string z, ISO-8601 with a
\* trailing Z, denote the same moment: the local time of s minus its offset is
\* the UTC time of z
SameMoment(s, z) ==
    /\ s.t = "ts" /\ z.t = "ts"
    /\ s.form = "swift" /\ s.zone = "num" /\ z.form = "iso" /\ z.zone = "Z"
    /\ ValidCivil(s) /\ ValidCivil(z) /\ s.zm \in 0..59 /\ s.zh \in 0..23
    /\ \/ /\ UtcSecond(s) \in 0..86399
          /\ <<z.y, z.mo, z.d>> = <<s.y, s.mo, s.d>>
          /\ SecondOfDay(z) = UtcSecond(s)
       \/ /\ UtcSecond(s) < 0
          /\ NextDay(z.y, z.mo, z.d) = <<s.y, s.mo, s.d>>
          /\ SecondOfDay(z) = UtcSecond(s) + 86400
       \/ /\ UtcSecond(s) >= 86400
          /\ <<z.y, z.mo, z.d>> = NextDay(s.y, s.mo, s.d)
          /\ SecondOfDay(z) = UtcSecond(s) - 86400
\* the timestamp string of data point j of the block of the last call
DateString(j) == LastBlocks[1].data[j].date

\* C10: whenever a "YYYY-MM-DD HH:MM:SS +-HHMM" string and an ISO-8601 string
\* with a trailing Z denote the same moment, normalization maps them to the
\* same instant, and two data points that differ only in this encoding are
\* written under one natural key and stored as one row.
C10_SameInstant ==
    Called =>
        \A a \in {1, 2} : \A b \in {1, 2} :
            SameMoment(DateString(a), DateString(b)) =>
                /\ parse_swift_datetime(DateString(a)).ok
                /\ parse_swift_datetime(DateString(b)).ok
                /\ parse_swift_datetime(DateString(a)).instant
                       = parse_swift_datetime(DateString(b)).instant
                /\ last.response.success
                /\ Len(last.log) = 2
                /\ HealthKey(last.log[1].row) = HealthKey(last.log[2].row)
                /\ Len(last.health) <= Len(last.health0) + 1

\* "2025-06-25 00:00:00 +0200" and "2025-06-24T22:00:00Z" in one block: both
\* points are written under the same key and one row is stored
C10_Witness ==
    /\ Called /\ last.user_id = "u2"
    /\ DateString(1) = tA /\ DateString(2) = tAz
    /\ SameMoment(tA, tAz)
    /\ last.log[1].row.timestamp = 1750802400
    /\ last.log[2].row.timestamp = 1750802400
    /\ Len(last.health) = Len(last.health0) + 1
    /\ last.health[Len(last.health)].value = 1

(***************************************************************************)
(* Sleep specification: one sleep_analysis block of one session drawn from *)
(* a wider set of sessions.                                                *)
(***************************************************************************)
tBefore == IsoZTs(<<2025, 6, 24>>, <<21, 0, 0>>)               \* an hour before tA
tSoon   == SwiftTs(<<2025, 6, 25>>, <<0, 1, 30>>, <<1, 2, 0>>) \* 90 s after tA
SleepStarts == {tA, tB}
SleepEnds == {tA, tAz, tB, tC, tBefore, tSoon}
SleepTotals == {0, 1, 57, 64}
SleepCores == {3, 31}
tNd     == DateTs(<<2025, 6, 25>>)                             \* 2025-06-25, which is tN
tEarly  == IsoZTs(<<2025, 6, 20>>, <<0, 0, 0>>)                \* days before tN
\* sessions of times without a zone, and of hours that are no finite number
\* hours given as a word: "inf", "nan" and " NaN"
OddHours == {Str("inf"), Str("nan"), Text(<<" ", "N", "a", "N">>)}
OddSessions ==
    {SleepObj(tN, en, 57, 31) : en \in {tN, tNd, tC, tEarly}}
        \cup {[SleepObj(tA, en, 57, 31) EXCEPT ![f] = w] :
                  en \in {tA, tC}, f \in {"totalSleep", "awake", "asleep"},
                  w \in OddHours}
SleepObjs ==
    {SleepObj(st, en, tot, co) :
        st \in SleepStarts, en \in SleepEnds, tot \in SleepTotals, co \in SleepCores}
        \cup OddSessions

SleepDoc(units, obj) ==
    [data |-> [metrics |-> <<[name |-> Str("sleep_analysis"), units |-> Str(units),
                              data |-> <<obj>>]>>]]

DeliverSleep ==
    /\ calls[1].pc = "idle"
    /\ \E u \in Users, obj \in SleepObjs : Webhook(1, u, Request(SleepDoc("hr", obj)), NoFault)

NextSleep == DeliverSleep \/ ReadBody \/ Connect \/ Execute \/ Close
SpecSleep == Init /\ [][NextSleep]_vars

\* the raw session of the last call
LastSession == LastBlocks[1].data[1]
\* the seconds from the start of a raw session to its end
InBedSeconds(obj) == Instant(obj.sleepEnd) - Instant(obj.sleepStart)
\* the end of a raw session is not after its start, or under a minute after
\* it; when only one of the two has a zone, the end is before the start in
\* whatever zone the other is read
NoTimeInBed(obj) ==
    IF AwareOf(obj, "sleepStart") = AwareOf(obj, "sleepEnd")
    THEN InBedSeconds(obj) < 60
    ELSE InBedSeconds(obj) < -86400

\* C6: for a session whose end is not after its start, or whose time in bed
\* is under a minute, the write raises nothing, the call succeeds, the row is
\* stored, and its efficiency is exactly 0.
C6_ZeroEfficiency ==
    (Called /\ NoTimeInBed(LastSession)) =>
        /\ last.response.success
        /\ last.response.processed.sleep = 1
        /\ Len(last.log) = 1
        /\ ~last.log[1].raised
        /\ last.log[1].table = "sleep_metrics"
        /\ last.log[1].row.efficiency = <<0, 1>>
        /\ \E r \in Rows(last.sleep) : SleepKey(r) = SleepKey(last.log[1].row)
        /\ (\A r \in Rows(last.sleep0) : SleepKey(r) # SleepKey(last.log[1].row))
               => last.sleep = Append(last.sleep0, last.log[1].row)

\* n / d, d > 0, rounded to the nearest integer, a tie going to the even one
Nearest(n, d) ==
    IF 2 * (n % d) < d THEN n \div d
    ELSE IF 2 * (n % d) > d THEN (n \div d) + 1
    ELSE IF (n \div d) % 2 = 0 THEN n \div d ELSE (n \div d) + 1

\* C17: the in-bed minutes of the row written for a session are the seconds
\* from its start to its end, divided by 60 and rounded to the nearest integer.
C17_InBedRounded ==
    Called =>
        \A e \in DOMAIN last.log :
            (Issued(e) /\ last.log[e].table = "sleep_metrics") =>
                last.log[e].row.duration_in_bed_minutes = Nearest(InBedSeconds(LastSession), 60)

\* the row the last call wrote for its session
LastSleepRow == last.log[1].row
DurationColumns ==
    {"duration_total_minutes", "duration_in_bed_minutes", "duration_awake_minutes",
     "duration_light_minutes", "duration_deep_minutes", "duration_rem_minutes"}
\* hours given in eighths, times 60, the fraction dropped
WholeMinutes(hours) ==
    IF FloatOf(hours) >= 0 THEN (FloatOf(hours) * 60) \div 8
    ELSE -((-FloatOf(hours) * 60) \div 8)

\* C18: the row written for a session has its total minutes from totalSleep,
\* awake from awake, deep from deep, rem from rem and light from core, each
\* the hours times 60 with the fraction dropped; the six duration columns are
\* all there are, and when asleep is a finite number that differs from the
\* five fields used, its minutes are in none of those five.
C18_SleepColumns ==
    (Called /\ Len(last.log) = 1 /\ Issued(1) /\ last.log[1].table = "sleep_metrics") =>
        /\ LastSleepRow.duration_total_minutes = WholeMinutes(LastSession.totalSleep)
        /\ LastSleepRow.duration_awake_minutes = WholeMinutes(LastSession.awake)
        /\ LastSleepRow.duration_deep_minutes = WholeMinutes(LastSession.deep)
        /\ LastSleepRow.duration_rem_minutes = WholeMinutes(LastSession.rem)
        /\ LastSleepRow.duration_light_minutes = WholeMinutes(LastSession.core)
        /\ DOMAIN LastSleepRow
               = DurationColumns \cup {"user_id", "start_time", "end_time", "efficiency"}
        /\ \A c \in DurationColumns : IsFinite(LastSleepRow[c])
        /\ (/\ IsFinite(FloatOf(LastSession.asleep))
            /\ \A f \in {"totalSleep", "awake", "deep", "rem", "core"} :
                   WholeMinutes(LastSession[f]) # WholeMinutes(LastSession.asleep))
               => \A c \in DurationColumns \ {"duration_in_bed_minutes"} :
                      LastSleepRow[c] # WholeMinutes(LastSession.asleep)

\* 7.125 h of sleep with 3.875 h of core sleep: 427 minutes in total, 232 of
\* them light
C18_Witness ==
    /\ Called /\ last.response.success
    /\ LastSession.totalSleep = Num(57) /\ LastSession.core = Num(31)
    /\ LastSession.asleep = Num(56)
    /\ Len(last.log) = 1 /\ Issued(1)
    /\ LastSleepRow.duration_total_minutes = 427
    /\ LastSleepRow.duration_light_minutes = 232
    /\ LastSleepRow.duration_awake_minutes = 22
    /\ LastSleepRow.duration_deep_minutes = 67
    /\ LastSleepRow.duration_rem_minutes = 127
    /\ \E r \in Rows(last.sleep) : r = LastSleepRow

(***************************************************************************)
(* Workout specification: payloads of workouts only, drawn from a wider    *)
(* set of energy encodings.                                                *)
(***************************************************************************)
MaxWorkouts == 2     \* workouts of one payload

\* a quantity that is null, and one that is a string
NoCal == Obj([qty |-> Null, units |-> Str("cal")])
StrCal == Obj([qty |-> NumStr(100), units |-> Str("cal")])
EnergyBurned ==
    {Null, Obj(EmptyDict), Obj([units |-> Str("cal")]), Cal(0), Cal(100), Cal(-5),
     Cal(inf), Cal(nan), NoCal, StrCal}
EnergySeries ==
    {Arr(<<>>), Arr(<<Cal(100), Cal(50)>>), Arr(<<Obj([units |-> Str("cal")]), Cal(30)>>),
     Arr(<<Cal(inf), Cal(-inf)>>), Arr(<<Cal(100), NoCal>>)}
WithKey(obj, key, vals) == {obj} \cup {obj @@ (key :> v) : v \in vals}
\* workouts with a start and an end of which one has no zone, or neither
OddWorkouts ==
    {[source |-> Str("watch"), start |-> tN, end |-> en, activeEnergyBurned |-> Cal(q)] :
        en \in {tC, tN}, q \in {0, 100}}
WorkoutDomain ==
    UNION {UNION {WithKey(w2, "start", {tA}) :
                      w2 \in WithKey(w1, "activeEnergy", EnergySeries)} :
               w1 \in WithKey([source |-> Str("watch")], "activeEnergyBurned", EnergyBurned)}
        \cup OddWorkouts

WorkoutDoc(ws) == [data |-> [workouts |-> ws]]

DeliverWorkouts ==
    /\ calls[1].pc = "idle"
    /\ \E u \in Users, n \in 1..MaxWorkouts :
           \E ws \in SeqsOfLen(WorkoutDomain, n) :
               Webhook(1, u, Request(WorkoutDoc(ws)), NoFault)

NextWorkout == DeliverWorkouts \/ ReadBody \/ Connect \/ Execute \/ Close
SpecWorkout == Init /\ [][NextWorkout]_vars

\* the trace entries of the last call that issued an INSERT
Inserts == {e \in DOMAIN last.log : last.log[e].table = "health_metrics"}

\* the total calories of raw workout k, as the handler computes them
TotalOf(k) == TotalCalories(HAEWorkout(LastWorkouts[k]))

\* C7: a workout issues an INSERT only if its total calories are greater than
\* 0; a workout whose total is 0 issues none, is not counted and is not
\* treated as an error, and the remaining workouts are processed.
C7_PositiveCaloriesOnly ==
    Called =>
        /\ last.response.success
        /\ Len(last.log) = Len(LastWorkouts)
        /\ \A k \in DOMAIN LastWorkouts :
               /\ EntryOfWorkout(k, k)
               /\ k \in Inserts => IsNum(TotalOf(k)) /\ IsPositive(TotalOf(k).v)
               /\ TotalOf(k) = Num(0) => k \notin Inserts /\ ~last.log[k].raised
        /\ last.response.processed.workouts = Cardinality(Inserts)
        /\ Len(last.health) <= Len(last.health0) + Cardinality(Inserts)
        /\ Inserts = {} => last.health = last.health0

\* the quantity of an object, when it has one that is a number
Quantity(d) == IF "qty" \in DOMAIN d /\ IsNum(d.qty) THEN <<d.qty.v>> ELSE <<>>
\* the sum of the quantities of the elements of a series, an element without
\* a quantity adding nothing; there is none when a quantity is no number
RECURSIVE QuantitySum(_)
QuantitySum(series) ==
    IF series = <<>> THEN <<0>>
    ELSE IF "qty" \notin DOMAIN Head(series).d THEN QuantitySum(Tail(series))
    ELSE IF Quantity(Head(series).d) = <<>> \/ QuantitySum(Tail(series)) = <<>> THEN <<>>
    ELSE <<FloatAdd(Quantity(Head(series).d)[1], QuantitySum(Tail(series))[1])>>
SeriesTotal(w) ==
    IF Has(w, "activeEnergy") /\ IsList(w.activeEnergy)
    THEN QuantitySum(w.activeEnergy.a) ELSE <<0>>
\* the total as claimed: activeEnergyBurned decides whenever it is an object
ClaimedCalories(w) ==
    IF Has(w, "activeEnergyBurned") /\ IsDict(w.activeEnergyBurned)
    THEN Quantity(w.activeEnergyBurned.d) ELSE SeriesTotal(w)
\* the total as amended: activeEnergyBurned decides only when it is an object
\* that is not empty
AmendedCalories(w) ==
    IF /\ Has(w, "activeEnergyBurned") /\ IsDict(w.activeEnergyBurned)
       /\ DOMAIN w.activeEnergyBurned.d # {}
    THEN Quantity(w.activeEnergyBurned.d) ELSE SeriesTotal(w)
\* no row is stored under the key of workout k when the call arrives, and no
\* earlier workout of the call is written under it
KeyFree(k) ==
    /\ \A r \in Rows(last.health0) : HealthKey(r) # HealthKey(last.log[k].row)
    /\ \A j \in Inserts : j < k => HealthKey(last.log[j].row) # HealthKey(last.log[k].row)
\* workout k is written under metric "workout" in unit "cal" with the total as
\* its value, and the row stored under its key at the return holds that value
\* unless the key was taken before; a workout that neither is written nor
\* raises has no total greater than 0
StoresTotal(k, total) ==
    /\ EntryOfWorkout(k, k)
    /\ k \in Inserts =>
           /\ total # <<>>
           /\ last.log[k].row.value = total[1]
           /\ last.log[k].row.metric_name = "workout"
           /\ last.log[k].row.metric_unit = "cal"
           /\ \E r \in Rows(last.health) : HealthKey(r) = HealthKey(last.log[k].row)
           /\ KeyFree(k) =>
                  \A r \in Rows(last.health) :
                      HealthKey(r) = HealthKey(last.log[k].row)
                          => r.value = total[1] /\ r.metric_unit = "cal"
    /\ (k \notin Inserts /\ ~last.log[k].raised) => (total = <<>> \/ ~IsPositive(total[1]))

\* C8 as claimed: the value stored for a workout is the quantity of
\* activeEnergyBurned when that field is an aggregate object, otherwise the sum
\* of the quantities of the activeEnergy series, otherwise 0.
C8_AsClaimed ==
    Called => \A k \in DOMAIN LastWorkouts :
                  StoresTotal(k, ClaimedCalories(LastWorkouts[k]))

\* C8 as amended: the value stored for a workout is the quantity of
\* activeEnergyBurned when that field is an object that is not empty, otherwise
\* the sum of the quantities of the activeEnergy series, otherwise 0.
C8_StoredCalories ==
    Called => \A k \in DOMAIN LastWorkouts :
                  StoresTotal(k, AmendedCalories(LastWorkouts[k]))

\* a workout with an empty activeEnergyBurned object and a series of 100 and
\* 50 is stored with value 150
C8_Witness ==
    /\ Called /\ last.user_id = "u2" /\ Len(LastWorkouts) = 1
    /\ LastWorkouts[1] = [source |-> Str("watch"), activeEnergyBurned |-> Obj(EmptyDict),
                          activeEnergy |-> Arr(<<Cal(100), Cal(50)>>), start |-> tA]
    /\ last.health = Append(last.health0, WorkoutRow("u2", Instant(tA), 150))
    /\ last.response.processed.workouts = 1

(***************************************************************************)
(* The query endpoint GET /metrics (backend/app/apis/metrics/__init__.py). *)
(* A datetime parameter arrives parsed: with a UTC offset (aware, an       *)
(* instant) or without one (naive, wall-clock seconds); an absent          *)
(* parameter is <<>>.                                                      *)
(***************************************************************************)
Aware(i) == <<[instant |-> i, aware |-> TRUE]>>
Naive(i) == <<[instant |-> i, aware |-> FALSE]>>

\* the date range test of get_metrics: datetimes are always truthy, and the
\* comparison of a naive with an aware datetime raises TypeError
RangeCheck(from_date, to_date) ==
    IF from_date = <<>> \/ to_date = <<>> THEN "pass"
    ELSE IF from_date[1].aware # to_date[1].aware THEN "TypeError"
    ELSE IF from_date[1].instant >= to_date[1].instant THEN "400"
    ELSE "pass"

\* the WHERE clause on the time column: >= from and <= to, each when given
InRange(t, from_date, to_date) ==
    /\ from_date = <<>> \/ t >= from_date[1].instant
    /\ to_date = <<>> \/ t <= to_date[1].instant

MetricDataPoint(timestamp, value) == [timestamp |-> timestamp, value |-> value]

\* ORDER BY timestamp ASC of a set of points with distinct timestamps
RECURSIVE SortAsc(_)
MinFirst(points, first) == <<first>> \o SortAsc(points \ {first})
SortAsc(points) ==
    IF points = {} THEN <<>>
    ELSE MinFirst(points, CHOOSE x \in points : \A y \in points : x.timestamp <= y.timestamp)
\* if limit: the LIMIT clause is added; a limit of 0 adds none
Limit(rows, n) ==
    IF n = 0 THEN rows ELSE SubSeq(rows, 1, IF n < Len(rows) THEN n ELSE Len(rows))

\* the rows a metric type reads: sleep_metrics for sleep, else the rows of
\* health_metrics under that metric name
Matching(H, S, user_id, metric, from_date, to_date) ==
    IF metric = "sleep"
    THEN {MetricDataPoint(r.start_time, Ratio(r.duration_total_minutes, 60)) :
              r \in {x \in Rows(S) : x.user_id = user_id
                                     /\ InRange(x.start_time, from_date, to_date)}}
    ELSE {MetricDataPoint(r.timestamp, r.value) :
              r \in {x \in Rows(H) : x.user_id = user_id /\ x.metric_name = metric
                                     /\ InRange(x.timestamp, from_date, to_date)}}

query_sleep_metrics(S, user_id, from_date, to_date, limit) ==
    Limit(SortAsc(Matching(<<>>, S, user_id, "sleep", from_date, to_date)), limit)
query_health_metrics(H, user_id, metric_name, from_date, to_date, limit) ==
    Limit(SortAsc(Matching(H, <<>>, user_id, metric_name, from_date, to_date)), limit)
query_workout_metrics(H, user_id, from_date, to_date, limit) ==
    Limit(SortAsc(Matching(H, <<>>, user_id, "workout", from_date, to_date)), limit)
get_total_count(H, S, user_id, metric, from_date, to_date) ==
    Cardinality(Matching(H, S, user_id, metric, from_date, to_date))

\* the data points of the metric type
QueryData(H, S, user_id, metric, from_date, to_date, limit) ==
    IF metric = "sleep" THEN query_sleep_metrics(S, user_id, from_date, to_date, limit)
    ELSE IF metric = "heart_rate_variability"
    THEN query_health_metrics(H, user_id, "heart_rate_variability", from_date, to_date, limit)
    ELSE query_workout_metrics(H, user_id, from_date, to_date, limit)

\* what a call of get_metrics answers: the status, whether get_db_connection
\* was called, whether it opened a connection, and the body of a 200
Answer(status, reached, connected, data, total_count) ==
    [status |-> status, reached |-> reached, connected |-> connected,
     data |-> data, total_count |-> total_count]
MetricsResponse(data, total_count) == Answer(200, TRUE, TRUE, data, total_count)

\* GET /metrics; user is <<>> when the request carries no valid token
get_metrics(H, S, metric, user, from_date, to_date, limit, env) ==
    IF user = <<>> THEN Answer(401, FALSE, FALSE, <<>>, 0)
    ELSE IF RangeCheck(from_date, to_date) = "400" THEN Answer(400, FALSE, FALSE, <<>>, 0)
    ELSE IF RangeCheck(from_date, to_date) = "TypeError"
    THEN Answer(500, FALSE, FALSE, <<>>, 0)                  \* unhandled: outside the try
    ELSE IF ~get_db_connection(env) THEN Answer(500, TRUE, FALSE, <<>>, 0)
    ELSE IF ~env.close_ok THEN Answer(500, TRUE, TRUE, <<>>, 0)    \* conn.close raises
    ELSE MetricsResponse(QueryData(H, S, user[1], metric, from_date, to_date, limit),
                         get_total_count(H, S, user[1], metric, from_date, to_date))

(***************************************************************************)
(* The insight endpoint GET /insights                                      *)
(* (backend/app/apis/insights/__init__.py).  A statistic is a float: an    *)
(* exact fraction <<n, d>> in lowest terms, or <<inf, 1>>, <<-inf, 1>> or  *)
(* <<nan, 1>>.  The aggregates are those of PostgreSQL over float8: a sum  *)
(* that takes in inf is inf, one that takes in inf and -inf is nan, and    *)
(* nan counts as greater than every other value in MIN and MAX.  The       *)
(* response of the endpoint is what the handler returns.                   *)
(***************************************************************************)
Frac(n) == <<n, 1>>
NonFinite(f) == f[2] = 1 /\ ~IsFinite(f[1])
IsNan(f) == f = Frac(nan)
\* what a statistic adds to a sum that is not finite: a finite one nothing
FloatPart(f) == IF NonFinite(f) THEN f[1] ELSE 0
FloatNeg(x) == IF x = nan THEN nan ELSE -x
\* the sign of a statistic that is not nan
Sgn(f) == IF f[1] > 0 THEN 1 ELSE IF f[1] < 0 THEN -1 ELSE 0
\* x > 0 of a statistic
Positive(f) == ~IsNan(f) /\ f[1] > 0
FracAdd(a, b) ==
    IF NonFinite(a) \/ NonFinite(b) THEN Frac(FloatAdd(FloatPart(a), FloatPart(b)))
    ELSE Ratio(a[1] * b[2] + b[1] * a[2], a[2] * b[2])
FracSub(a, b) ==
    IF NonFinite(a) \/ NonFinite(b)
    THEN Frac(FloatAdd(FloatPart(a), FloatNeg(FloatPart(b))))
    ELSE Ratio(a[1] * b[2] - b[1] * a[2], a[2] * b[2])
\* a / b for b that is not 0: inf / inf is nan, a finite a / inf is 0
FracDiv(a, b) ==
    IF NonFinite(a) \/ NonFinite(b)
    THEN (IF IsNan(a) \/ IsNan(b) \/ (NonFinite(a) /\ NonFinite(b)) THEN Frac(nan)
          ELSE IF NonFinite(b) THEN Frac(0)
          ELSE Frac(Sgn(a) * Sgn(b) * inf))
    ELSE Ratio(a[1] * b[2], a[2] * b[1])
\* a * b: inf * 0 is nan
FracMul(a, b) ==
    IF NonFinite(a) \/ NonFinite(b)
    THEN (IF IsNan(a) \/ IsNan(b) \/ Sgn(a) * Sgn(b) = 0 THEN Frac(nan)
          ELSE Frac(Sgn(a) * Sgn(b) * inf))
    ELSE Ratio(a[1] * b[1], a[2] * b[2])

\* the rows of a table in a window: ... BETWEEN $2 AND $3
HrvRows(H, user_id, start_time, end_time) ==
    SelectSeq(H, LAMBDA r : r.user_id = user_id /\ r.metric_name = "heart_rate_variability"
                            /\ r.timestamp >= start_time /\ r.timestamp <= end_time)
WorkoutRows(H, user_id, start_time, end_time) ==
    SelectSeq(H, LAMBDA r : r.user_id = user_id /\ r.metric_name = "workout"
                            /\ r.timestamp >= start_time /\ r.timestamp <= end_time)
SleepRows(S, user_id, start_time, end_time) ==
    SelectSeq(S, LAMBDA r : r.user_id = user_id
                            /\ r.start_time >= start_time /\ r.start_time <= end_time)
\* SUM of a column given as fractions
RECURSIVE FracSum(_)
FracSum(fs) == IF fs = <<>> THEN Frac(0) ELSE FracAdd(Head(fs), FracSum(Tail(fs)))
Avg(fs) == FracDiv(FracSum(fs), Frac(Len(fs)))
Values(rows) == [i \in DOMAIN rows |-> Frac(rows[i].value)]
\* MIN and MAX of a column: -inf is below and inf above every finite value, and
\* nan, the integer above inf, above them all
Least(rows) == CHOOSE v \in {rows[i].value : i \in DOMAIN rows} :
                   \A i \in DOMAIN rows : v <= rows[i].value
Greatest(rows) == CHOOSE v \in {rows[i].value : i \in DOMAIN rows} :
                      \A i \in DOMAIN rows : v >= rows[i].value

MetricStats(avg, min, max) == [avg |-> avg, min |-> min, max |-> max]
HrvStatsOf(rows) ==
    IF rows = <<>> THEN MetricStats(Frac(0), Frac(0), Frac(0))
    ELSE MetricStats(Avg(Values(rows)), Frac(Least(rows)), Frac(Greatest(rows)))
get_hrv_stats(H, user_id, start_time, end_time) ==
    HrvStatsOf(HrvRows(H, user_id, start_time, end_time))

SleepStats(avg_duration_hours, avg_efficiency) ==
    [avg_duration_hours |-> avg_duration_hours, avg_efficiency |-> avg_efficiency]
SleepStatsOf(rows) ==
    IF rows = <<>> THEN SleepStats(Frac(0), Frac(0))
    ELSE SleepStats(FracDiv(Avg([i \in DOMAIN rows |-> Frac(rows[i].duration_total_minutes)]),
                            Frac(60)),
                    Avg([i \in DOMAIN rows |-> rows[i].efficiency]))
get_sleep_stats(S, user_id, start_time, end_time) ==
    SleepStatsOf(SleepRows(S, user_id, start_time, end_time))

WorkoutStats(total_calories, session_count) ==
    [total_calories |-> total_calories, session_count |-> session_count]
\* SELECT COALESCE(SUM(value), 0) and SELECT COUNT(*) of the workout rows
calories_query(H, user_id, start_time, end_time) ==
    FracSum(Values(WorkoutRows(H, user_id, start_time, end_time)))
sessions_query(H, user_id, start_time, end_time) ==
    Len(WorkoutRows(H, user_id, start_time, end_time))
get_workout_stats(H, user_id, start_time, end_time) ==
    WorkoutStats(calories_query(H, user_id, start_time, end_time),
                 sessions_query(H, user_id, start_time, end_time))

PeriodData(H, S, user_id, start_time, end_time) ==
    [hrv |-> get_hrv_stats(H, user_id, start_time, end_time),
     sleep |-> get_sleep_stats(S, user_id, start_time, end_time),
     workout |-> get_workout_stats(H, user_id, start_time, end_time)]
MetricChanges(current, previous) ==
    [hrv_change_percent |->
         IF Positive(previous.hrv.avg)
         THEN FracMul(FracDiv(FracSub(current.hrv.avg, previous.hrv.avg), previous.hrv.avg),
                      Frac(100))
         ELSE Frac(0),
     sleep_duration_change |->
         FracSub(current.sleep.avg_duration_hours, previous.sleep.avg_duration_hours),
     workout_calorie_change |->
         FracSub(current.workout.total_calories, previous.workout.total_calories)]

\* the text-generation collaborator as one call meets it: whether the key and
\* the model are configured, how requests.post ends ("timeout", "error" or a
\* status code), and whether a 200 carries a well-formed body
Unconfigured == "AI insights temporarily unavailable. Please configure Venice AI credentials."
ServiceError == "AI insights temporarily unavailable due to service error."
Unavailable ==
    "AI insights temporarily unavailable. Analysis shows your metrics are being tracked successfully."
Advice == "advice of the collaborator"
Insight(text) == [raised |-> FALSE, text |-> text]
Propagated == [raised |-> TRUE, text |-> ""]

\* a generate_ai_insight without the catch-all: a failing post propagates
generate_ai_insight_uncaught(venice) ==
    IF ~venice.api_key \/ ~venice.model THEN Insight(Unconfigured)
    ELSE IF venice.post \in {"timeout", "error"} THEN Propagated
    ELSE IF venice.post = "200"
    THEN (IF venice.well_formed THEN Insight(Advice) ELSE Propagated)
    ELSE Insight(ServiceError)

\* generate_ai_insight: every exception is caught and answered with a sentence
generate_ai_insight(venice) ==
    IF ~venice.api_key \/ ~venice.model THEN Insight(Unconfigured)
    ELSE IF venice.post \in {"timeout", "error"} THEN Insight(Unavailable)
    ELSE IF venice.post = "200"
    THEN (IF venice.well_formed THEN Insight(Advice) ELSE Insight(Unavailable))
    ELSE Insight(ServiceError)

InsightsError(status) == [status |-> status]
InsightsResponse(period_hours, current, previous, insight) ==
    IF insight.raised THEN InsightsError(500)
    ELSE [status |-> 200, period_hours |-> period_hours, current |-> current,
          previous |-> previous, changes |-> MetricChanges(current, previous),
          insight |-> insight.text]

\* GET /insights at instant now
get_health_insights(H, S, now, user, range_hours, env, venice) ==
    IF user = <<>> THEN InsightsError(401)
    ELSE IF ~get_db_connection(env) THEN InsightsError(500)
    ELSE IF ~env.close_ok THEN InsightsError(500)
    ELSE InsightsResponse(range_hours,
                          PeriodData(H, S, user[1], now - range_hours * 3600, now),
                          PeriodData(H, S, user[1], now - range_hours * 2 * 3600,
                                     now - range_hours * 3600),
                          generate_ai_insight(venice))

(***************************************************************************)
(* The reading endpoints step by step.  get_metrics and                    *)
(* get_health_insights run their checks, await the connection, await each  *)
(* of their queries and await conn.close() in the finally block; `reader`  *)
(* is the call of one of them, at "connect", at its queries ("count" and   *)
(* "data", or "stats"), at "close", or "returned".                         *)
(***************************************************************************)
\* the call has not answered yet
Pending == Answer(0, TRUE, FALSE, <<>>, 0)
\* the checks before the first await pass
Passes(user, from_date, to_date, env) ==
    user # <<>> /\ RangeCheck(from_date, to_date) = "pass" /\ Configured(env)
\* GET /metrics is called: the call runs to await asyncpg.connect, or is
\* answered by one of the checks before it, having read no table
Asked(metric, user, from_date, to_date, limit, env) ==
    [kind |-> "metrics", metric |-> metric, user |-> user, from_date |-> from_date,
     to_date |-> to_date, limit |-> limit, env |-> env, total_count |-> 0, data |-> <<>>,
     pc |-> IF Passes(user, from_date, to_date, env) THEN "connect" ELSE "returned",
     response |-> IF Passes(user, from_date, to_date, env) THEN Pending
                  ELSE get_metrics(<<>>, <<>>, metric, user, from_date, to_date, limit, env)]
\* GET /insights is called at instant now
Consulted(now, user, range_hours, env, venice) ==
    [kind |-> "insights", user |-> user, range_hours |-> range_hours, env |-> env,
     venice |-> venice, now |-> now, stats |-> <<>>, insight |-> Insight(""),
     pc |-> IF user # <<>> /\ Configured(env) THEN "connect" ELSE "returned",
     response |-> IF user = <<>> THEN InsightsError(401)
                  ELSE IF ~Configured(env) THEN InsightsError(500) ELSE Pending]
\* conn = await get_db_connection() has returned or raised
Opened(call) ==
    IF asyncpg_connect(call.env)
    THEN [call EXCEPT !.pc = IF call.kind = "metrics" THEN "count" ELSE "stats"]
    ELSE [call EXCEPT !.pc = "returned",
                      !.response = IF call.kind = "metrics"
                                   THEN Answer(500, TRUE, FALSE, <<>>, 0)
                                   ELSE InsightsError(500)]
\* total_count = await get_total_count(...), on the tables as they are now
Counted_(call) ==
    [call EXCEPT !.pc = "data",
                 !.total_count = get_total_count(health_metrics, sleep_metrics, call.user[1],
                                                 call.metric, call.from_date, call.to_date)]
\* data_points = await query_...(...), on the tables as they are now
Fetched(call) ==
    [call EXCEPT !.pc = "close",
                 !.data = QueryData(health_metrics, sleep_metrics, call.user[1], call.metric,
                                    call.from_date, call.to_date, call.limit)]
\* the result of the k-th of the eight queries get_health_insights awaits, on
\* the tables as they are now: HRV, sleep, calories and sessions of the
\* current period, then those of the previous one
PeriodStart(call, k) ==
    IF k <= 4 THEN call.now - call.range_hours * 3600
    ELSE call.now - call.range_hours * 2 * 3600
PeriodEnd(call, k) ==
    IF k <= 4 THEN call.now ELSE call.now - call.range_hours * 3600
Statistic(call, k) ==
    IF k \in {1, 5}
    THEN get_hrv_stats(health_metrics, call.user[1], PeriodStart(call, k), PeriodEnd(call, k))
    ELSE IF k \in {2, 6}
    THEN get_sleep_stats(sleep_metrics, call.user[1], PeriodStart(call, k), PeriodEnd(call, k))
    ELSE IF k \in {3, 7}
    THEN calories_query(health_metrics, call.user[1], PeriodStart(call, k), PeriodEnd(call, k))
    ELSE sessions_query(health_metrics, call.user[1], PeriodStart(call, k), PeriodEnd(call, k))
\* one of the eight awaits has returned; after the last, generate_ai_insight
\* runs without yielding (requests.post blocks) and the call is at the close
Measured(call) ==
    IF Len(call.stats) < 7
    THEN [call EXCEPT !.stats = Append(@, Statistic(call, Len(call.stats) + 1))]
    ELSE [call EXCEPT !.stats = Append(@, Statistic(call, 8)),
                      !.insight = generate_ai_insight(call.venice),
                      !.pc = "close"]
\* await conn.close() has returned or raised: the response of the try block,
\* or the 500 of the except branch
Released(call) ==
    [call EXCEPT !.pc = "returned",
                 !.response =
                     IF call.kind = "metrics"
                     THEN (IF call.env.close_ok
                           THEN MetricsResponse(call.data, call.total_count)
                           ELSE Answer(500, TRUE, TRUE, <<>>, 0))
                     ELSE (IF call.env.close_ok
                           THEN InsightsResponse(call.range_hours,
                                    [hrv |-> call.stats[1], sleep |-> call.stats[2],
                                     workout |-> WorkoutStats(call.stats[3], call.stats[4])],
                                    [hrv |-> call.stats[5], sleep |-> call.stats[6],
                                     workout |-> WorkoutStats(call.stats[7], call.stats[8])],
                                    call.insight)
                           ELSE InsightsError(500))]

\* the reading call moves on
Reads(call) ==
    /\ reader' = call
    /\ UNCHANGED <<health_metrics, sleep_metrics, clock, last, calls>>
\* the connection of the reading call has been opened or refused
Open == reader.pc = "connect" /\ Reads(Opened(reader))
\* the query has counted the matching rows
CountRows == reader.pc = "count" /\ Reads(Counted_(reader))
\* the query has read its data points
FetchRows == reader.pc = "data" /\ Reads(Fetched(reader))
\* one of the queries of the insight call has returned
ReadStats == reader.pc = "stats" /\ Reads(Measured(reader))
\* the connection of the reading call has been closed
Release == reader.pc = "close" /\ Reads(Released(reader))

MaxLimit == 2        \* the largest limit asked for
MetricTypes == {"heart_rate_variability", "workout", "sleep"}
\* wall-clock seconds of midnight of a civil date
Midnight(y, m, d) == DaysFromCivil(y, m, d) * 86400
QueryDates ==
    {<<>>, Aware(Instant(tA)), Aware(Instant(tB)), Aware(Instant(tC)),
     Naive(Midnight(2025, 6, 20)), Naive(Midnight(2025, 6, 28))}
Callers == {<<>>} \cup {<<u>> : u \in Users}
QueryEnvs == {NoFault, NoUrl, Refused, CloseFails}

\* a query arrives
Query ==
    /\ reader.pc = "idle"
    /\ \E metric \in MetricTypes, user \in Callers, from_date \in QueryDates,
          to_date \in QueryDates, limit \in 1..MaxLimit, env \in QueryEnvs :
           Reads(Asked(metric, user, from_date, to_date, limit, env))

NextQuery == Query \/ Open \/ CountRows \/ FetchRows \/ Release
SpecQuery == Init /\ [][NextQuery]_vars

\* from is at or after to, from is before to: the instants when both carry an
\* offset, the wall-clock times when neither does, and, when only one does,
\* dates more than a day apart, which no offset can reorder
Before(a, b) ==
    IF a[1].aware = b[1].aware THEN a[1].instant < b[1].instant
    ELSE a[1].instant + 86400 < b[1].instant
BothGiven ==
    /\ reader.pc = "returned"
    /\ reader.user # <<>> /\ reader.from_date # <<>> /\ reader.to_date # <<>>

\* C11: for an authenticated request with both from and to given, from >= to
\* is answered with status 400 and no storage connection is opened, and
\* from < to is not rejected by the range check and goes on to storage.
C11_RangeRejected ==
    BothGiven =>
        /\ (Before(reader.to_date, reader.from_date) \/ reader.from_date = reader.to_date)
               => reader.response.status = 400 /\ ~reader.response.connected
        /\ Before(reader.from_date, reader.to_date)
               => reader.response.status # 400 /\ reader.response.reached

(***************************************************************************)
(* Concurrent webhook calls of any users and payloads.                     *)
(***************************************************************************)
\* the payloads the concurrent calls choose from
ConcDocs ==
    {[data |-> [metrics |-> <<[name |-> Str("heart_rate_variability"), units |-> Str("ms"),
                                data |-> <<cA1, cAz2>>]>>]],
      [data |-> [metrics |-> <<[name |-> Str("sleep_analysis"), units |-> Str("hr"),
                                data |-> <<sNight>>]>>,
                 workouts |-> <<wAgg>>]],
      [data |-> [workouts |-> <<wZero, wSeries>>]],
      [data |-> [workouts |-> <<wJunk>>]],
      [data |-> [metrics |-> <<[name |-> Str("heart_rate_variability"), units |-> Str("ms"),
                                data |-> <<cA1>>]>>,
                 workouts |-> <<wSeries>>]]}
ConcEnvs == {NoFault, Refused, CloseFails, FirstWriteFails}

\* a call arrives
Start ==
    \E c \in DOMAIN calls :
        /\ calls[c].pc = "idle"
        /\ \A b \in 1..(c - 1) : calls[b].pc # "idle"
        /\ \E u \in Users, doc \in ConcDocs, env \in ConcEnvs :
               Webhook(c, u, Request(doc), env)

NextConc == Start \/ ReadBody \/ Connect \/ Execute \/ Close
SpecConc == Init /\ [][NextConc]_vars

Started == {c \in DOMAIN calls : calls[c].pc # "idle"}
AllDone == \A c \in Started : calls[c].pc = "returned"

\* C12: a call holds an open connection only while it is running: once it
\* has ended (its response is set) the connection it acquired is closed,
\* after normal completion, after write failures of its records and after a
\* failing close alike, and a call that never got a connection holds none.
C12_ConnectionReleased ==
    \A c \in Started :
        /\ calls[c].conn = "open" <=> calls[c].pc \in {"execute", "close"}
        /\ calls[c].response # NoResponse <=> calls[c].pc = "returned"
        /\ calls[c].pc = "returned" =>
               calls[c].conn = IF /\ calls[c].request.json
                                  /\ ValidHealthAutoExportPayload(calls[c].request.doc)
                                  /\ calls[c].env.db_url /\ calls[c].env.connect_ok
                               THEN "closed" ELSE "none"

\* two calls have ended, one after a write of it raised and one after its
\* close failed, and both connections are closed
C12_Witness ==
    /\ \E c \in Started :
           /\ calls[c].pc = "returned" /\ calls[c].conn = "closed"
           /\ calls[c].response.success
           /\ \E e \in DOMAIN calls[c].log : calls[c].log[e].raised
    /\ \E c \in Started :
           /\ calls[c].pc = "returned" /\ calls[c].conn = "closed"
           /\ calls[c].env = CloseFails /\ calls[c].response = ErrorResponse

NoDuplicateKey ==
    /\ \A a \in DOMAIN health_metrics : \A b \in DOMAIN health_metrics :
           HealthKey(health_metrics[a]) = HealthKey(health_metrics[b]) => a = b
    /\ \A a \in DOMAIN sleep_metrics : \A b \in DOMAIN sleep_metrics :
           SleepKey(sleep_metrics[a]) = SleepKey(sleep_metrics[b]) => a = b
\* the calls in flight are retries of one payload of one user, none of them
\* meeting a fault
Retries ==
    /\ Cardinality(Started) >= 2
    /\ \A c \in Started :
           /\ calls[c].user_id = calls[1].user_id /\ calls[c].request = calls[1].request
           /\ calls[c].env = NoFault
\* the tables a single call of the payload leaves
SingleCall ==
    health_auto_export_webhook(SeedHealth, SeedSleep, Now0, calls[1].user_id,
                               calls[1].request, NoFault)

\* C13: whatever the interleaving of the concurrent calls, the tables hold at
\* most one row per natural key, and when the calls carry the identical
\* payload for the same user the final rows are those a single call leaves.
C13_ConcurrentRetries ==
    /\ NoDuplicateKey
    /\ (AllDone /\ Retries) =>
           /\ health_metrics = SingleCall.health
           /\ sleep_metrics = SingleCall.sleep

RangeHours == {24, 74, 168}
Venices ==
    [api_key : BOOLEAN, model : BOOLEAN,
     post : {"timeout", "error", "200", "204", "429", "500"}, well_formed : BOOLEAN]

\* an insight call arrives
Insights ==
    /\ reader.pc = "idle"
    /\ \E user \in Callers, range_hours \in RangeHours, env \in QueryEnvs, venice \in Venices :
           Reads(Consulted(clock, user, range_hours, env, venice))

NextInsights == Insights \/ Open \/ ReadStats \/ Release
SpecInsights == Init /\ [][NextInsights]_vars

\* the collaborator fails the call: it is not configured, the post times out
\* or raises, or it answers with a status outside 2xx
CollaboratorFails(venice) ==
    \/ ~venice.api_key \/ ~venice.model
    \/ venice.post \in {"timeout", "error"}
    \/ venice.post \notin {"200", "204"}
Fallbacks == {Unconfigured, ServiceError, Unavailable}

\* C15: when the collaborator is not configured, times out, raises or answers
\* outside 2xx, an authenticated call with working storage is still answered
\* 200 with the statistics of the current and the previous period, their
\* changes, and a static fallback sentence as the insight.
C15_InsightFallback ==
    (/\ reader.pc = "returned" /\ reader.user # <<>> /\ reader.env = NoFault
     /\ CollaboratorFails(reader.venice))
    => /\ reader.response.status = 200
       /\ reader.response.insight \in Fallbacks
       /\ reader.response.period_hours = reader.range_hours
       /\ reader.response.current.workout.session_count
              = Cardinality({i \in DOMAIN health_metrics :
                     /\ health_metrics[i].user_id = reader.user[1]
                     /\ health_metrics[i].metric_name = "workout"
                     /\ health_metrics[i].timestamp \in
                            (clock - reader.range_hours * 3600)..clock})
       /\ DOMAIN reader.response.previous = {"hrv", "sleep", "workout"}
       /\ DOMAIN reader.response.changes
              = {"hrv_change_percent", "sleep_duration_change", "workout_calorie_change"}

\* the post times out for a user with stored rows: the statistics of the week
\* come back with the fallback sentence
C15_Witness ==
    /\ reader.pc = "returned" /\ reader.user = <<"u1">> /\ reader.env = NoFault
    /\ reader.range_hours = 168
    /\ reader.venice.api_key /\ reader.venice.model /\ reader.venice.post = "timeout"
    /\ reader.response.status = 200
    /\ reader.response.insight = Unavailable
    /\ reader.response.current.hrv.avg = <<9, 1>>
    /\ reader.response.current.workout = WorkoutStats(<<70, 1>>, 1)
    /\ reader.response.current.sleep.avg_duration_hours = <<5, 1>>

(***************************************************************************)
(* The query endpoint with ingestion calls running beside it:              *)
(* get_metrics awaits get_total_count and then the data query, two         *)
(* statements on a connection with no transaction around them, and the     *)
(* statements of ingestion calls may run before, between and after them.   *)
(***************************************************************************)
MaxIngests == 1      \* ingestion calls running beside the query
PagedDates == {<<>>, Aware(Instant(tB))}
PagedEnvs == {NoFault, Refused, CloseFails}

\* a query arrives
Ask ==
    /\ reader.pc = "idle"
    /\ \E metric \in MetricTypes, user \in Callers, from_date \in PagedDates,
          to_date \in PagedDates, limit \in 1..MaxLimit, env \in PagedEnvs :
           Reads(Asked(metric, user, from_date, to_date, limit, env))
\* an ingestion call arrives on a working storage
Ingest ==
    \E c \in 1..MaxIngests :
        /\ c \in DOMAIN calls
        /\ calls[c].pc = "idle"
        /\ \A b \in 1..(c - 1) : calls[b].pc # "idle"
        /\ \E u \in Users, doc \in ConcDocs : Webhook(c, u, Request(doc), NoFault)

NextPaged ==
    \/ Ask \/ Open \/ CountRows \/ FetchRows \/ Release
    \/ Ingest \/ ReadBody \/ Connect \/ Execute \/ Close
SpecPaged == Init /\ [][NextPaged]_vars

\* the query has returned a successful response
Answered == reader.pc = "returned" /\ reader.response.status = 200

\* C21: a successful response of the query endpoint carries at most limit
\* data points and at most total_count data points, whatever statements of
\* ingestion calls ran before, between and after its two queries.
C21_DataWithinCount ==
    Answered =>
        /\ Len(reader.response.data) <= reader.limit
        /\ Len(reader.response.data) <= reader.response.total_count

====
